---- MODULE Spec2Model ----
(***************************************************************************)
(* Model of the review tooling of no-OS:                                   *)
(*   extract_review_patterns_6month.py  (comment classifier and tally),    *)
(*   tools/pre-commit/review-checker.py (source pattern scanner),          *)
(*   tools/pre-commit/sonar-report-analyzer.py (linter finding ranker).    *)
(* Python str values are TLA+ strings; a character is a string of length 1.*)
(***************************************************************************)
EXTENDS Integers, Sequences, FiniteSets, TLC

VARIABLES
  comment_text,       \* categorize_comment: its argument
  category,           \* categorize_comment: its return value ("" before the call)
  pr_number,          \* analyze_patterns: number of the PR processed last
  ppc,                \* analyze_patterns: "loop", "returned" or "raised"
  breakdown,          \* analyze_patterns: the printed category breakdown
  category_counts,    \* analyze_patterns: defaultdict(int)
  category_examples,  \* analyze_patterns: defaultdict(list)
  all_comments,       \* analyze_patterns: list of categorized comments
  report_issues,      \* sonar: report['issues'], the finding objects (mutated in place)
  analysis,           \* sonar: what analyze_issues returned (references into report_issues)
  prioritized,        \* sonar: what prioritize_issues returned (references, ranked)
  rpc,                \* sonar: "idle", "loaded", "analyzed", "prioritized", "reported"
                      \*        or "raised"
  high_priority,      \* sonar: the top priority list of generate_report (references)
  claude_report,      \* sonar: << >>, or the one report export_for_claude_review built
  file_path,          \* review checker: the argument of analyze_file
  file_status,        \* review checker: "missing", "ok", "denied" or "directory"
  content,            \* review checker: the text of the file
  file_issues,        \* review checker: the list analyze_file returned
  spc,                \* review checker: "idle", "ready", "returned" or "raised"
  argv,               \* review checker: the files named on the command line of main
  argi,               \* review checker: how many of them the loop of main has taken
  checker_issues,     \* review checker: checker.issues
  scans,              \* review checker: the calls of analyze_file made by main so far
  exit_status         \* review checker: the exit status of main (-1 while it runs)

cvars == <<comment_text, category>>
pvars == <<pr_number, ppc, breakdown, category_counts, category_examples, all_comments>>
rvars == <<report_issues, analysis, prioritized, rpc, high_priority, claude_report>>
svars == <<file_path, file_status, content, file_issues, spc,
           argv, argi, checker_issues, scans, exit_status>>
vars == <<cvars, pvars, rvars, svars>>

(***************************************************************************)
(* Bounds of the model.                                                    *)
(***************************************************************************)
\* words per comment text handed to categorize_comment
MaxWords == 2
\* findings in one linter report
MaxFindings == 3
\* PRs (one comment each) fed to analyze_patterns in one run
MaxPRs == 12
\* PRs (one comment each) of a run of analyze_patterns followed to its end
MaxBreakdownPRs == 8
\* lines of code in one scanned file
MaxLines == 2
\* blank lines ahead of the guard lines of a scanned header
MaxPad == 10
\* blank lines between a null check and a dereference of a scanned file
MaxGap == 5
\* lines of a scanned file of declarations and documentation markers
MaxDocLines == 3
\* files named on the command line of the review checker
MaxArgs == 3
\* lines that follow the blank lines of a scanned header
MaxGuardLines == 2

(***************************************************************************)
(* Python str operations.                                                  *)
(***************************************************************************)
LowerLetters ==
  << "a","b","c","d","e","f","g","h","i","j","k","l","m",
     "n","o","p","q","r","s","t","u","v","w","x","y","z" >>
UpperLetters ==
  << "A","B","C","D","E","F","G","H","I","J","K","L","M",
     "N","O","P","Q","R","S","T","U","V","W","X","Y","Z" >>

Range(f) == { f[i] : i \in DOMAIN f }

\* position of character c in the sequence of characters a (0 when absent)
IndexIn(a, c) == IF \E i \in DOMAIN a : a[i] = c
                 THEN CHOOSE i \in DOMAIN a : a[i] = c ELSE 0

\* s[i-1] of Python: the i-th character, 1-indexed
Ch(s, i) == SubSeq(s, i, i)

LowerCh(c) == IF IndexIn(UpperLetters, c) > 0
              THEN LowerLetters[IndexIn(UpperLetters, c)] ELSE c
UpperCh(c) == IF IndexIn(LowerLetters, c) > 0
              THEN UpperLetters[IndexIn(LowerLetters, c)] ELSE c

RECURSIVE Lower(_)
\* str.lower()
Lower(s) == IF s = "" THEN "" ELSE LowerCh(Head(s)) \o Lower(Tail(s))

RECURSIVE Upper(_)
\* str.upper()
Upper(s) == IF s = "" THEN "" ELSE UpperCh(Head(s)) \o Upper(Tail(s))

\* `sub in s` of Python
Contains(s, sub) ==
  \E i \in 0..(Len(s) - Len(sub)) : SubSeq(s, i + 1, i + Len(sub)) = sub

RECURSIVE Replace(_, _, _)
\* str.replace(old, new): every occurrence, left to right (old is not empty)
Replace(s, old, new) ==
  IF Len(s) < Len(old) THEN s
  ELSE IF SubSeq(s, 1, Len(old)) = old
  THEN new \o Replace(SubSeq(s, Len(old) + 1, Len(s)), old, new)
  ELSE Head(s) \o Replace(Tail(s), old, new)

\* str.startswith(prefix)
StartsWith(s, prefix) == Len(prefix) <= Len(s) /\ SubSeq(s, 1, Len(prefix)) = prefix
\* str.endswith(suffix)
EndsWith(s, suffix) ==
  Len(suffix) <= Len(s) /\ SubSeq(s, Len(s) - Len(suffix) + 1, Len(s)) = suffix

RECURSIVE Split(_, _)
\* str.split(sep) for a separator of one character: never an empty list
Split(s, sep) ==
  IF \E i \in 1..Len(s) : Ch(s, i) = sep
  THEN LET i == CHOOSE i \in 1..Len(s) :
                  Ch(s, i) = sep /\ \A j \in 1..(i - 1) : Ch(s, j) # sep
       IN  << SubSeq(s, 1, i - 1) >> \o Split(SubSeq(s, i + 1, Len(s)), sep)
  ELSE << s >>

RECURSIVE Join(_, _)
\* sep.join(parts)
Join(parts, sep) ==
  IF parts = << >> THEN ""
  ELSE IF Len(parts) = 1 THEN parts[1]
  ELSE parts[1] \o sep \o Join(Tail(parts), sep)

RECURSIVE Concat(_)
\* the lists of a list of lists, one after the other
Concat(lists) == IF lists = << >> THEN << >> ELSE lists[1] \o Concat(Tail(lists))

\* lines[:n]
Take(lines, n) == SubSeq(lines, 1, IF n < Len(lines) THEN n ELSE Len(lines))

\* the characters str.strip() and \\s take for whitespace
Whitespace == { " ", "\t", "\n", "\r", "\f" }

RECURSIVE LStrip(_)
LStrip(s) == IF s # "" /\ Head(s) \in Whitespace THEN LStrip(Tail(s)) ELSE s

RECURSIVE RStrip(_)
RStrip(s) == IF s # "" /\ Ch(s, Len(s)) \in Whitespace
             THEN RStrip(SubSeq(s, 1, Len(s) - 1)) ELSE s

\* str.strip()
Strip(s) == RStrip(LStrip(s))

(***************************************************************************)
(* Python re: a pattern is a tree, and Ends(r, s, p) is the set of the     *)
(* positions at which a match of r that starts at position p of s can end  *)
(* (a position is the number of characters before it).                     *)
(***************************************************************************)
Digits == { "0", "1", "2", "3", "4", "5", "6", "7", "8", "9" }
HexDigits == Digits \cup { "a", "b", "c", "d", "e", "f", "A", "B", "C", "D", "E", "F" }
\* \w
WordChars == Range(LowerLetters) \cup Range(UpperLetters) \cup Digits \cup { "_" }

Lit(str) == [ t |-> "lit", s |-> str ]
\* [...]
Cls(chars) == [ t |-> "cls", c |-> chars ]
\* [^...]
NotCls(chars) == [ t |-> "ncls", c |-> chars ]
\* . (any character but a line break)
AnyChar == NotCls({ "\n" })
Cat(items) == [ t |-> "cat", items |-> items ]
Alt(items) == [ t |-> "alt", items |-> items ]
Star(r) == [ t |-> "star", r |-> r ]
Plus(r) == Cat(<< r, Star(r) >>)
Opt(r) == Alt(<< Cat(<< >>), r >>)
\* \b
WordB == [ t |-> "wordb" ]
\* ^ (no MULTILINE flag)
Bol == [ t |-> "bol" ]
\* $ (the lines of a file hold no line break)
Eol == [ t |-> "eol" ]

IsWordAt(s, i) == i >= 1 /\ i <= Len(s) /\ Ch(s, i) \in WordChars

RECURSIVE Ends(_, _, _)
RECURSIVE CatEnds(_, _, _, _)
RECURSIVE StarEnds(_, _, _, _)

Ends(r, s, p) ==
  CASE r.t = "lit" ->
         IF p + Len(r.s) <= Len(s) /\ SubSeq(s, p + 1, p + Len(r.s)) = r.s
         THEN { p + Len(r.s) } ELSE {}
    [] r.t = "cls" -> IF p < Len(s) /\ Ch(s, p + 1) \in r.c THEN { p + 1 } ELSE {}
    [] r.t = "ncls" -> IF p < Len(s) /\ Ch(s, p + 1) \notin r.c THEN { p + 1 } ELSE {}
    [] r.t = "cat" -> CatEnds(r.items, 1, s, { p })
    [] r.t = "alt" -> UNION { Ends(r.items[i], s, p) : i \in DOMAIN r.items }
    [] r.t = "star" -> StarEnds(r.r, s, { p }, { p })
    [] r.t = "wordb" -> IF IsWordAt(s, p) # IsWordAt(s, p + 1) THEN { p } ELSE {}
    [] r.t = "bol" -> IF p = 0 THEN { p } ELSE {}
    [] r.t = "eol" -> IF p = Len(s) THEN { p } ELSE {}

\* the items from the k-th on, started at any position of from
CatEnds(items, k, s, from) ==
  IF k > Len(items) \/ from = {} THEN from
  ELSE CatEnds(items, k + 1, s, UNION { Ends(items[k], s, p) : p \in from })

\* zero or more repetitions: seen are the ends found, frontier the new ones
StarEnds(r, s, frontier, seen) ==
  LET next == UNION { Ends(r, s, p) : p \in frontier } \ seen
  IN  IF next = {} THEN seen ELSE StarEnds(r, s, next, seen \cup next)

\* re.match(r, s)
Match(r, s) == Ends(r, s, 0) # {}
\* re.search(r, s)
Search(r, s) == \E p \in 0..Len(s) : Ends(r, s, p) # {}

\* the end of the longest run of characters of chars that starts at position p
RECURSIVE RunEnd(_, _, _)
RunEnd(s, p, chars) ==
  IF p < Len(s) /\ Ch(s, p + 1) \in chars THEN RunEnd(s, p + 1, chars) ELSE p

(***************************************************************************)
(* Python dict (insertion ordered): the sequence of its (key, value) items *)
(***************************************************************************)
DictKeys(d) == { d[i][1] : i \in DOMAIN d }

\* d.get(k, default); d[k] of a defaultdict whose factory gives default
DictGet(d, k, default) ==
  IF k \in DictKeys(d) THEN d[CHOOSE i \in DOMAIN d : d[i][1] = k][2] ELSE default

\* d[k] = v: an existing key keeps its place, a new key goes last
DictSet(d, k, v) ==
  IF k \in DictKeys(d)
  THEN [i \in DOMAIN d |-> IF d[i][1] = k THEN <<k, v>> ELSE d[i]]
  ELSE Append(d, <<k, v>>)

\* x goes after every element whose key is not greater
InsertAfter(sorted, x, key) ==
  LET n == Cardinality({ j \in DOMAIN sorted : key[sorted[j]] <= key[x] })
  IN  SubSeq(sorted, 1, n) \o <<x>> \o SubSeq(sorted, n + 1, Len(sorted))

RECURSIVE Sorted(_, _)
\* sorted(refs, key=...): stable, ascending
Sorted(refs, key) ==
  IF refs = << >> THEN << >>
  ELSE InsertAfter(Sorted(SubSeq(refs, 1, Len(refs) - 1), key), refs[Len(refs)], key)

(***************************************************************************)
(* extract_review_patterns_6month.py: categorize_comment                   *)
(***************************************************************************)
categories ==
  <<
    [ name |-> "Error Handling",
      keywords |-> <<
         "error", "return", "null", "check", "handle", "validation", "leak",
         "memory", "free", "malloc", "deallocation", "fail", "ret !=",
         "ret ==", "if (!", "errno"
      >> ],
    [ name |-> "Documentation",
      keywords |-> <<
         "comment", "documentation", "doc", "readme", "doxygen", "@brief",
         "@param", "@return", "document", "explain", "describe", "unclear",
         "missing comment"
      >> ],
    [ name |-> "Header Guards/Includes",
      keywords |-> <<
         "header", "include", "guard", "#ifndef", "#define", "#include",
         "include order", "missing include", "circular include",
         "header guard"
      >> ],
    [ name |-> "Constants/Magic Numbers",
      keywords |-> <<
         "magic number", "constant", "define", "#define", "hardcode",
         "literal", "magic", "hardcoded", "define this", "use define"
      >> ],
    [ name |-> "Naming Convention",
      keywords |-> <<
         "naming", "name", "convention", "prefix", "suffix", "rename",
         "variable name", "function name", "inconsistent", "should be named",
         "name should"
      >> ],
    [ name |-> "Code Style",
      keywords |-> <<
         "style", "format", "indent", "spacing", "bracket", "brace",
         "astyle", "formatting", "whitespace", "line length", "indentation"
      >> ],
    [ name |-> "Type Safety",
      keywords |-> <<
         "cast", "casting", "type", "overflow", "underflow", "uint", "int",
         "float", "double", "size_t", "pointer", "alignment", "type safety"
      >> ],
    [ name |-> "Performance",
      keywords |-> <<
         "performance", "optimize", "speed", "memory", "leak", "efficiency",
         "slow", "fast", "memory usage", "cpu", "optimization"
      >> ],
    [ name |-> "Security",
      keywords |-> <<
         "security", "buffer overflow", "bounds check", "validation",
         "sanitize", "vulnerable", "exploit", "attack", "secure", "safety"
      >> ],
    [ name |-> "Testing",
      keywords |-> <<
         "test", "testing", "unit test", "integration", "coverage", "assert",
         "verify", "validation", "test case"
      >> ],
    [ name |-> "Platform Compatibility",
      keywords |-> <<
         "platform", "compatibility", "portable", "cross-platform", "linux",
         "windows", "embedded", "architecture", "endian"
      >> ],
    [ name |-> "Typos/Grammar",
      keywords |-> <<
         "typo", "typos", "spelling", "grammar", "misspell",
         "correct spelling", "should be", "meant", "fix typo"
      >> ],
    [ name |-> "Code Organization",
      keywords |-> <<
         "organize", "structure", "refactor", "move", "separate", "split",
         "organize code", "code structure", "architecture"
      >> ]
  >>

RECURSIVE ScoreKeywords(_, _, _)
\* the inner loop: one point per keyword of the list found in comment_lower
ScoreKeywords(keywords, comment_lower, k) ==
  IF k > Len(keywords) THEN 0
  ELSE (IF Contains(comment_lower, keywords[k]) THEN 1 ELSE 0)
       + ScoreKeywords(keywords, comment_lower, k + 1)

RECURSIVE ScoreCategories(_, _)
\* the outer loop: category_scores as the dict's (key, value) items in insertion
\* order; a defaultdict gets a key only when a keyword of the category is found
ScoreCategories(comment_lower, c) ==
  IF c > Len(categories) THEN << >>
  ELSE LET n == ScoreKeywords(categories[c].keywords, comment_lower, 1)
       IN  (IF n > 0 THEN << <<categories[c].name, n>> >> ELSE << >>)
           \o ScoreCategories(comment_lower, c + 1)

\* a max() that keeps the last of several maximal items
MaxItemLast(items) ==
  LET best == CHOOSE i \in DOMAIN items :
                /\ \A j \in DOMAIN items : items[j][2] <= items[i][2]
                /\ \A j \in DOMAIN items : j > i => items[j][2] < items[i][2]
  IN  items[best]

\* max(items, key=lambda x: x[1]): the first item whose value is maximal
MaxItem(items) ==
  LET best == CHOOSE i \in DOMAIN items :
                /\ \A j \in DOMAIN items : items[j][2] <= items[i][2]
                /\ \A j \in DOMAIN items : j < i => items[j][2] < items[i][2]
  IN  items[best]

\* a classifier that asks for two keywords of a category before it names it
categorize_comment_two_keywords(text) ==
  LET category_scores == ScoreCategories(Lower(text), 1)
  IN  IF category_scores # << >> /\ MaxItem(category_scores)[2] >= 2
      THEN MaxItem(category_scores)[1]
      ELSE "Uncategorized"

categorize_comment(text) ==
  LET category_scores == ScoreCategories(Lower(text), 1)
  IN  IF category_scores # << >> THEN MaxItem(category_scores)[1]
      ELSE "Uncategorized"

\* the words comment texts are built from (mixed case: the classifier lower-cases)
Vocabulary ==
  { "Memory", "leak", "validation", "architecture", "#define", "test", "rename", "ok" }

\* the comment texts categorize_comment is called on
ClassifyTexts ==
  { Join(ws, " ") : ws \in UNION { [1..k -> Vocabulary] : k \in 0..MaxWords } }

\* before any call of analyze_patterns
PatternsIdle ==
  /\ pr_number = 0
  /\ ppc = "loop"
  /\ breakdown = << >>
  /\ category_counts = << >>
  /\ category_examples = << >>
  /\ all_comments = << >>

\* before any report is loaded
RankIdle ==
  /\ report_issues = << >>
  /\ analysis = << >>
  /\ prioritized = << >>
  /\ rpc = "idle"
  /\ high_priority = << >>
  /\ claude_report = << >>

\* before analyze_file is called
ScanIdle ==
  /\ file_path = ""
  /\ file_status = "missing"
  /\ content = ""
  /\ file_issues = << >>
  /\ spc = "idle"
  /\ argv = << >>
  /\ argi = 0
  /\ checker_issues = << >>
  /\ scans = << >>
  /\ exit_status = -1

InitClassify ==
  /\ comment_text \in ClassifyTexts
  /\ category = ""
  /\ PatternsIdle
  /\ RankIdle
  /\ ScanIdle

\* one call: category = categorize_comment(comment_text)
Categorize ==
  /\ category = ""
  /\ category' = categorize_comment(comment_text)
  /\ UNCHANGED <<comment_text, pvars, rvars, svars>>

NextClassify == Categorize

SpecClassify == InitClassify /\ [][NextClassify]_vars

(***************************************************************************)
(* C1: tie-break of categorize_comment                                     *)
(***************************************************************************)
\* score of the c-th category of the taxonomy on the lower-cased text
ScoreOf(c, text) == ScoreKeywords(categories[c].keywords, Lower(text), 1)

\* the categories (by position in the taxonomy) that reach the highest score
TopCategories(text) ==
  { c \in DOMAIN categories :
      \A d \in DOMAIN categories : ScoreOf(d, text) <= ScoreOf(c, text) }

\* two or more categories share the highest score, and that score is not zero
IsTie(text) ==
  /\ Cardinality(TopCategories(text)) >= 2
  /\ \E c \in TopCategories(text) : ScoreOf(c, text) > 0

\* C1: whenever two or more categories tie for the highest nonzero keyword
\* score, categorize_comment returns the tied category declared earliest in the
\* taxonomy, never a later one.
C1_TieBreakEarliest ==
  (category # "" /\ IsTie(comment_text)) =>
     \E c \in TopCategories(comment_text) :
        /\ category = categories[c].name
        /\ \A d \in TopCategories(comment_text) : c <= d

\* a classified text on which three categories tie (validation: Error Handling,
\* Security, Testing)
C1_Witness ==
  /\ category # ""
  /\ IsTie(comment_text)
  /\ Cardinality(TopCategories(comment_text)) >= 3

(***************************************************************************)
(* extract_review_patterns_6month.py: analyze_patterns                     *)
(***************************************************************************)
\* examples kept per category
MaxExamples == 10
\* shortest stripped comment that is classified
MinCommentLen == 10

\* the comments a PR can carry: a line comment and a review comment that are
\* classified, and a review comment that is too short once stripped
CommentPool ==
  { [ type |-> "line_comment", author |-> "rev1",
      body |-> "Memory leak: free it", path |-> "drivers/adc/ad7124.c" ],
    [ type |-> "review", author |-> "rev2",
      body |-> "rename this, please" ],
    [ type |-> "review", author |-> "rev2",
      body |-> "  test ok \n" ] }

\* comment.get('path', 'N/A')
PathOf(comment) == IF "path" \in DOMAIN comment THEN comment.path ELSE "N/A"

\* an example store that makes room by dropping the oldest example
StoreExampleNewest(examples, cat, entry) ==
  LET have == DictGet(examples, cat, << >>)
  IN  IF Len(have) < MaxExamples
      THEN DictSet(examples, cat, Append(have, entry))
      ELSE DictSet(examples, cat, Append(Tail(have), entry))

\* if len(category_examples[category]) < 10: category_examples[category].append(..)
\* (reading category_examples[category] creates the key of the defaultdict)
StoreExample(examples, cat, entry) ==
  LET have == DictGet(examples, cat, << >>)
  IN  IF Len(have) < MaxExamples
      THEN DictSet(examples, cat, Append(have, entry))
      ELSE DictSet(examples, cat, have)

\* category = categorize_comment(comment_text), for each comment of the pool
\* (a table, so that the classification of a comment is computed once)
CategoryOfComment == [ c \in CommentPool |-> categorize_comment(c.body) ]

InitPatterns ==
  /\ comment_text = ""
  /\ category = ""
  /\ PatternsIdle
  /\ RankIdle
  /\ ScanIdle

\* the body of the loop over pr_comments with the length test left out
ProcessCommentUnfiltered(comment) ==
  /\ ppc = "loop"
  /\ pr_number < MaxPRs
  /\ pr_number' = pr_number + 1
  /\ comment_text' = comment.body
  /\ LET cat == CategoryOfComment[comment]
     IN  /\ category' = cat
         /\ category_counts' =
              DictSet(category_counts, cat, DictGet(category_counts, cat, 0) + 1)
         /\ category_examples' =
              StoreExample(category_examples, cat,
                           [ body |-> comment.body, path |-> PathOf(comment),
                             pr |-> pr_number' ])
         /\ all_comments' =
              Append(all_comments,
                     [ pr |-> pr_number', category |-> cat,
                       comment |-> comment.body, author |-> comment.author,
                       path |-> PathOf(comment) ])
  /\ UNCHANGED <<ppc, breakdown, rvars, svars>>

\* one PR of the outer loop, carrying the one comment `comment`: the body of the
\* loop over pr_comments
ProcessComment(comment) ==
  /\ ppc = "loop"
  /\ pr_number < MaxPRs
  /\ pr_number' = pr_number + 1
  /\ comment_text' = comment.body
  /\ IF Len(Strip(comment_text')) < MinCommentLen
     THEN UNCHANGED <<category, category_counts, category_examples, all_comments>>
     ELSE LET cat == CategoryOfComment[comment]
          IN  /\ category' = cat
              /\ category_counts' =
                   DictSet(category_counts, cat, DictGet(category_counts, cat, 0) + 1)
              /\ category_examples' =
                   StoreExample(category_examples, cat,
                                [ body |-> comment.body, path |-> PathOf(comment),
                                  pr |-> pr_number' ])
              /\ all_comments' =
                   Append(all_comments,
                          [ pr |-> pr_number', category |-> cat,
                            comment |-> comment.body, author |-> comment.author,
                            path |-> PathOf(comment) ])
  /\ UNCHANGED <<ppc, breakdown, rvars, svars>>

RECURSIVE SumValues(_)
\* sum(category_counts.values())
SumValues(dict) ==
  IF dict = << >> THEN 0 ELSE dict[1][2] + SumValues(Tail(dict))

\* a percentage cut to one decimal instead of rounded, in tenths
PercentageTruncated(count, total) == (count * 1000) \div total

\* (count / total_comments) * 100 as f"{percentage:.1f}" prints it, in tenths
\* of a percent: the nearest tenth (for the totals of the model no quotient
\* lies halfway between two tenths)
Percentage(count, total) == (count * 2000 + total) \div (2 * total)

\* the end of analyze_patterns: the categories sorted by falling count
\* (stable), each with its share of total_comments; count / total_comments
\* raises ZeroDivisionError when total_comments is 0.  Without any PR,
\* analyze_patterns returns before the loop.
CategoryBreakdown ==
  /\ ppc = "loop"
  /\ LET sorted_categories ==
           Sorted([ i \in DOMAIN category_counts |-> i ],
                  [ i \in DOMAIN category_counts |-> 0 - category_counts[i][2] ])
         total_comments == SumValues(category_counts)
     IN  IF pr_number = 0
         THEN ppc' = "returned" /\ breakdown' = << >>
         ELSE IF sorted_categories # << >> /\ total_comments = 0
         THEN ppc' = "raised" /\ breakdown' = << >>
         ELSE /\ ppc' = "returned"
              /\ breakdown' =
                   [ k \in DOMAIN sorted_categories |->
                       [ category |-> category_counts[sorted_categories[k]][1],
                         count |-> category_counts[sorted_categories[k]][2],
                         percentage |->
                           Percentage(category_counts[sorted_categories[k]][2],
                                      total_comments) ] ]
  /\ UNCHANGED <<cvars, pr_number, category_counts, category_examples,
                 all_comments, rvars, svars>>

\* the loop of analyze_patterns alone, over up to MaxPRs PRs
NextPatterns == \E comment \in CommentPool : ProcessComment(comment)

\* analyze_patterns to its end, over up to MaxBreakdownPRs PRs
NextBreakdown ==
  \/ \E comment \in CommentPool :
        pr_number < MaxBreakdownPRs /\ ProcessComment(comment)
  \/ CategoryBreakdown

SpecBreakdown == InitPatterns /\ [][NextBreakdown]_vars

SpecPatterns == InitPatterns /\ [][NextPatterns]_vars

(***************************************************************************)
(* C3: bounded examples                                                    *)
(***************************************************************************)
\* the processed comments of category cat, oldest first, as example entries
CommentsOf(cat) ==
  LET mine == SelectSeq(all_comments, LAMBDA e : e.category = cat)
  IN  [ i \in 1..Len(mine) |->
          [ body |-> mine[i].comment, path |-> mine[i].path, pr |-> mine[i].pr ] ]

\* C3: after any sequence of classified comments every category's example list
\* holds at most 10 entries, and they are exactly the first min(count, 10)
\* comments of that category in input order.
C3_BoundedExamples ==
  \A cat \in DictKeys(category_counts) :
     LET examples == DictGet(category_examples, cat, << >>)
         count == DictGet(category_counts, cat, 0)
         n == IF count < 10 THEN count ELSE 10
     IN  /\ Len(examples) <= 10
         /\ count = Len(CommentsOf(cat))
         /\ examples = SubSeq(CommentsOf(cat), 1, n)

\* a category has received more comments than it keeps examples, with comments
\* of another category in between
C3_Witness ==
  /\ \E cat \in DictKeys(category_counts) :
        /\ DictGet(category_counts, cat, 0) > 10
        /\ all_comments[Len(all_comments)].category = cat
  /\ Cardinality(DictKeys(category_counts)) >= 2

(***************************************************************************)
(* sonar-report-analyzer.py: SonarReportAnalyzer                           *)
(* A finding is an entry of report['issues']: a JSON object, modelled as   *)
(* [kind |-> "dict", d |-> its members], or any other JSON value, modelled *)
(* as [kind |-> "str", value |-> ..].  analysis and the ranked list hold   *)
(* references to the finding objects: their positions in report_issues.    *)
(* Scores are kept in tenths (1 is 10, 0.5 is 5, 0.3 is 3).                *)
(***************************************************************************)
\* self.severity_priority, in tenths
severity_priority ==
  << <<"BLOCKER", 10>>, <<"CRITICAL", 20>>, <<"MAJOR", 30>>, <<"MINOR", 40>>,
     <<"INFO", 50>> >>

\* self.severity_priority.get(severity, 10): the default, in tenths
DefaultPriority == 100
\* priority_score -= 0.5, in tenths
UrgentBonus == 5
\* priority_score -= 0.3, in tenths
DriverBonus == 3

\* self.rule_categories
rule_categories ==
  << <<"security", <<"squid:S2068", "squid:S1313", "squid:S1449", "squid:S2245">> >>,
     <<"memory", <<"squid:S1066", "squid:S1119", "squid:S1143">> >>,
     <<"error_handling", <<"squid:S1181", "squid:S1193", "squid:S899">> >>,
     <<"code_quality", <<"squid:S100", "squid:S101", "squid:S138", "squid:S1151">> >>,
     <<"performance", <<"squid:S1943", "squid:S1313">> >>,
     <<"maintainability", <<"squid:S1067", "squid:S134", "squid:S1479">> >> >>

\* the suggestions table of get_fix_suggestions
suggestions ==
  << <<"squid:S100", "Use descriptive function names with device prefix (e.g., adm1275_read_voltage)">>,
     <<"squid:S101", "Follow no-OS naming: lowercase with underscores, device prefix">>,
     <<"squid:S1066", "Add proper null checks before pointer dereference">>,
     <<"squid:S1119", "Use no_os_malloc/no_os_free instead of stdlib functions">>,
     <<"squid:S138", "Split large functions into smaller, focused functions">>,
     <<"squid:S1181", "Handle specific error codes, return appropriate no-OS error codes">>,
     <<"squid:S2068", "Remove hardcoded credentials, use configuration parameters">>,
     <<"squid:S899", "Use NO_OS_BIT() macro instead of (1 << n) patterns">> >>

\* issue.get(key, default) on a finding object
Get(issue, key, default) ==
  IF key \in DOMAIN issue.d THEN issue.d[key] ELSE default

\* any(rule in rule_key for rule in rules)
AnyRuleIn(rules, rule_key) == \E i \in DOMAIN rules : Contains(rule_key, rules[i])

\* a resolution that keeps the last category of the table with a rule id in rule_key
categorize_rule_last(rule_key) ==
  IF \E c \in DOMAIN rule_categories : AnyRuleIn(rule_categories[c][2], rule_key)
  THEN LET last == CHOOSE c \in DOMAIN rule_categories :
                     /\ AnyRuleIn(rule_categories[c][2], rule_key)
                     /\ \A b \in (c + 1)..Len(rule_categories) :
                          ~AnyRuleIn(rule_categories[b][2], rule_key)
       IN  rule_categories[last][1]
  ELSE "other"

\* categorize_rule: the first category of the table with a rule id in rule_key
categorize_rule(rule_key) ==
  IF \E c \in DOMAIN rule_categories : AnyRuleIn(rule_categories[c][2], rule_key)
  THEN LET first == CHOOSE c \in DOMAIN rule_categories :
                      /\ AnyRuleIn(rule_categories[c][2], rule_key)
                      /\ \A b \in 1..(c - 1) : ~AnyRuleIn(rule_categories[b][2], rule_key)
       IN  rule_categories[first][1]
  ELSE "other"

\* a suggestion that looks at the message before the table of the rules
get_fix_suggestions_message_first(issue) ==
  LET rule_key == Get(issue, "rule", "")
      message == Lower(Get(issue, "message", ""))
  IN  IF Contains(message, "function") /\ Contains(message, "complex")
      THEN "Break into smaller functions following no-OS single-responsibility pattern"
      ELSE IF Contains(message, "variable") /\ Contains(message, "name")
      THEN "Use descriptive variable names with device/component context"
      ELSE IF Contains(message, "memory")
      THEN "Review memory management - use no_os_alloc/no_os_free consistently"
      ELSE IF Contains(message, "error")
      THEN "Improve error handling - return specific error codes, check all return values"
      ELSE IF \E i \in DOMAIN suggestions : Contains(rule_key, suggestions[i][1])
      THEN suggestions[CHOOSE i \in DOMAIN suggestions :
                         /\ Contains(rule_key, suggestions[i][1])
                         /\ \A j \in 1..(i - 1) : ~Contains(rule_key, suggestions[j][1])][2]
      ELSE "Review SonarCloud documentation for this rule"

\* get_fix_suggestions(issue)
get_fix_suggestions(issue) ==
  LET rule_key == Get(issue, "rule", "")
      message == Lower(Get(issue, "message", ""))
  IN  IF \E i \in DOMAIN suggestions : Contains(rule_key, suggestions[i][1])
      THEN suggestions[CHOOSE i \in DOMAIN suggestions :
                         /\ Contains(rule_key, suggestions[i][1])
                         /\ \A j \in 1..(i - 1) : ~Contains(rule_key, suggestions[j][1])][2]
      ELSE IF Contains(message, "function") /\ Contains(message, "complex")
      THEN "Break into smaller functions following no-OS single-responsibility pattern"
      ELSE IF Contains(message, "variable") /\ Contains(message, "name")
      THEN "Use descriptive variable names with device/component context"
      ELSE IF Contains(message, "memory")
      THEN "Review memory management - use no_os_alloc/no_os_free consistently"
      ELSE IF Contains(message, "error")
      THEN "Improve error handling - return specific error codes, check all return values"
      ELSE "Review SonarCloud documentation for this rule"

\* a boost only for the rules that no category other than the three lists
IsUrgentRuleSoleCategory(rule_key) ==
  /\ \E c \in DOMAIN rule_categories : AnyRuleIn(rule_categories[c][2], rule_key)
  /\ \A c \in DOMAIN rule_categories :
       AnyRuleIn(rule_categories[c][2], rule_key)
         => rule_categories[c][1] \in {"security", "memory", "error_handling"}

\* the condition of the boost for no-OS specific concerns
IsUrgentRule(rule_key) ==
  \E c \in DOMAIN rule_categories :
     /\ AnyRuleIn(rule_categories[c][2], rule_key)
     /\ rule_categories[c][1] \in {"security", "memory", "error_handling"}

\* a score that puts a severity outside the table ahead of every other
PriorityScoreUnknownFirst(severity, issue) ==
  DictGet(severity_priority, severity, 0)
  - (IF IsUrgentRule(Get(issue, "rule", "")) THEN UrgentBonus ELSE 0)
  - (IF Contains(Get(issue, "component", ""), "drivers/") THEN DriverBonus ELSE 0)

\* a score that grants the driver bonus only to findings without the urgent bonus
PriorityScoreOneBonus(severity, issue) ==
  DictGet(severity_priority, severity, DefaultPriority)
  - (IF IsUrgentRule(Get(issue, "rule", "")) THEN UrgentBonus
     ELSE IF Contains(Get(issue, "component", ""), "drivers/") THEN DriverBonus
     ELSE 0)

\* a score whose boost for no-OS specific concerns is one severity step and a half
PriorityScoreLargeBonus(severity, issue) ==
  DictGet(severity_priority, severity, DefaultPriority)
  - (IF IsUrgentRule(Get(issue, "rule", "")) THEN 15 ELSE 0)
  - (IF Contains(Get(issue, "component", ""), "drivers/") THEN DriverBonus ELSE 0)

\* the priority_score prioritize_issues computes for `issue` of group `severity`
PriorityScore(severity, issue) ==
  DictGet(severity_priority, severity, DefaultPriority)
  - (IF IsUrgentRule(Get(issue, "rule", "")) THEN UrgentBonus ELSE 0)
  - (IF Contains(Get(issue, "component", ""), "drivers/") THEN DriverBonus ELSE 0)

\* the findings a report can hold: recognized and unrecognized severities, a
\* finding with no severity, rule or component, and an entry that is no object
FindingPool ==
  { [ kind |-> "dict",
      d |-> [ severity |-> "BLOCKER", rule |-> "squid:S2068", line |-> 12,
              component |-> "project:drivers/adc/ad7124.c",
              message |-> "Hardcoded credential" ] ],
    [ kind |-> "dict",
      d |-> [ severity |-> "CRITICAL", rule |-> "squid:S1313", line |-> 40,
              component |-> "project:drivers/adc/ad7124.c",
              message |-> "Hardcoded IP address" ] ],
    [ kind |-> "dict",
      d |-> [ severity |-> "MAJOR", rule |-> "squid:S1066", line |-> 7,
              component |-> "project:src/main.c",
              message |-> "Merge this if statement" ] ],
    [ kind |-> "dict",
      d |-> [ severity |-> "MAJOR", rule |-> "cpp:S999", line |-> 7,
              component |-> "project:drivers/dac/ad5791.c",
              message |-> "Function is too complex" ] ],
    [ kind |-> "dict",
      d |-> [ severity |-> "MAJOR", rule |-> "cpp:S999", line |-> 21,
              component |-> "project:src/main.c",
              message |-> "Nothing special" ] ],
    [ kind |-> "dict",
      d |-> [ severity |-> "MINOR", rule |-> "squid:S1000", line |-> 3,
              component |-> "project:src/main.c",
              message |-> "Variable name is too short" ] ],
    [ kind |-> "dict",
      d |-> [ severity |-> "MINOR", rule |-> "squid:S1181", line |-> 30,
              component |-> "project:drivers/dac/ad5791.c",
              message |-> "Catch a more specific exception" ] ],
    [ kind |-> "dict",
      d |-> [ severity |-> "INFO", rule |-> "squid:S1943", line |-> 1,
              component |-> "project:src/util.c",
              message |-> "Memory is copied twice" ] ],
    [ kind |-> "dict",
      d |-> [ severity |-> "FOO", rule |-> "cpp:S999", line |-> 5,
              component |-> "project:src/main.c",
              message |-> "Error code ignored" ] ],
    [ kind |-> "dict",
      d |-> [ severity |-> "BAR", rule |-> "cpp:S999", line |-> 6,
              component |-> "project:src/main.c",
              message |-> "Nothing special" ] ],
    [ kind |-> "dict",
      d |-> [ severity |-> "BAR", rule |-> "squid:S2068", line |-> 8,
              component |-> "project:drivers/dac/ad5791.c",
              message |-> "Nothing special" ] ],
    [ kind |-> "dict",
      d |-> [ line |-> 9, message |-> "Nothing special" ] ],
    [ kind |-> "str", value |-> "not a finding" ] }

\* the JSON objects of the pool
ObjectPool == { f \in FindingPool : f.kind = "dict" }

\* tables of the functions above over the values the pool's findings carry
\* (each value is computed once)
CategoryOfRule ==
  [ r \in { Get(f, "rule", "") : f \in ObjectPool } |-> categorize_rule(r) ]
FilePathOf ==
  [ c \in { Get(f, "component", "") : f \in ObjectPool } |-> Replace(c, "project:", "") ]
ScoreOfIssue ==
  [ f \in ObjectPool |-> PriorityScore(Get(f, "severity", "UNKNOWN"), f) ]
SuggestionOfIssue == [ f \in ObjectPool |-> get_fix_suggestions(f) ]

\* d[k].append(ref) on a defaultdict(list)
DictAppend(dict, k, ref) == DictSet(dict, k, Append(DictGet(dict, k, << >>), ref))

RECURSIVE AnalyzeFrom(_, _, _)
\* the loop of analyze_issues from entry i on; issue.get raises AttributeError
\* on an entry that is no object, and the analysis built so far is lost
AnalyzeFrom(issues, i, acc) ==
  IF i > Len(issues) THEN [ raised |-> FALSE, analysis |-> acc ]
  ELSE IF issues[i].kind # "dict" THEN [ raised |-> TRUE, analysis |-> << >> ]
  ELSE LET issue == issues[i]
           severity == Get(issue, "severity", "UNKNOWN")
           path == FilePathOf[Get(issue, "component", "")]
           rule_key == Get(issue, "rule", "")
           cat == CategoryOfRule[rule_key]
       IN  AnalyzeFrom(issues, i + 1,
             [ by_severity |-> DictAppend(acc.by_severity, severity, i),
               by_file |-> DictAppend(acc.by_file, path, i),
               by_category |-> DictAppend(acc.by_category, cat, i),
               by_rule |-> DictAppend(acc.by_rule, rule_key, i) ])

\* analyze_issues(report), report['issues'] being `issues`
analyze_issues(issues) ==
  AnalyzeFrom(issues, 1,
    [ by_severity |-> << >>, by_file |-> << >>, by_category |-> << >>,
      by_rule |-> << >> ])

RECURSIVE FlattenRecognized(_)
\* the references of the groups of the five severities of the table only
FlattenRecognized(dict) ==
  IF dict = << >> THEN << >>
  ELSE (IF dict[1][1] \in DictKeys(severity_priority) THEN dict[1][2] ELSE << >>)
       \o FlattenRecognized(Tail(dict))

RECURSIVE Flatten(_)
\* the references of the groups of a dict, group after group in the dict's order
Flatten(dict) ==
  IF dict = << >> THEN << >> ELSE dict[1][2] \o Flatten(Tail(dict))

\* the object after issue['priority_score'] = .. and issue['fix_suggestion'] = ..
\* (the severity of the loop is the key the issue was filed under by
\* analyze_issues: issue.get('severity', 'UNKNOWN'))
Scored(issue) ==
  [ kind |-> "dict",
    d |-> ("priority_score" :> ScoreOfIssue[issue]
           @@ "fix_suggestion" :> SuggestionOfIssue[issue]
           @@ issue.d) ]

InitRank ==
  /\ comment_text = ""
  /\ category = ""
  /\ PatternsIdle
  /\ ScanIdle
  /\ report_issues \in UNION { [1..n -> FindingPool] : n \in 0..MaxFindings }
  /\ analysis = << >>
  /\ prioritized = << >>
  /\ rpc = "loaded"
  /\ high_priority = << >>
  /\ claude_report = << >>

\* analysis = analyzer.analyze_issues(report)
AnalyzeIssues ==
  /\ rpc = "loaded"
  /\ LET r == analyze_issues(report_issues)
     IN  IF r.raised
         THEN /\ rpc' = "raised"
              /\ UNCHANGED analysis
         ELSE /\ rpc' = "analyzed"
              /\ analysis' = r.analysis
  /\ UNCHANGED <<cvars, pvars, svars, report_issues, prioritized, high_priority,
                 claude_report>>

\* prioritized = analyzer.prioritize_issues(analysis)
PrioritizeIssues ==
  /\ rpc = "analyzed"
  /\ LET all_issues == Flatten(analysis.by_severity)
         heap == [ i \in DOMAIN report_issues |->
                     IF i \in Range(all_issues) THEN Scored(report_issues[i])
                     ELSE report_issues[i] ]
         key == [ i \in Range(all_issues) |-> heap[i].d.priority_score ]
     IN  /\ report_issues' = heap
         /\ prioritized' = Sorted(all_issues, key)
  /\ rpc' = "prioritized"
  /\ UNCHANGED <<cvars, pvars, svars, analysis, high_priority, claude_report>>

\* the score up to which generate_report lists an issue as top priority (3, in tenths)
TopPriorityScore == 30
\* the length up to which generate_report lists top priority issues
TopPriorityCap == 10
\* the scores up to which export_for_claude_review counts an issue as high
\* and as medium priority (2 and 3, in tenths)
ExportHighScore == 20
ExportMediumScore == 30
\* the number of issues that export_for_claude_review writes
ExportCap == 20

RECURSIVE DictTouchAll(_, _)
\* d[k] read on a defaultdict(list) for the keys of a list, one after the
\* other: a key that is missing is added with []
DictTouchAll(dict, keys) ==
  IF keys = << >> THEN dict
  ELSE DictTouchAll(IF Head(keys) \in DictKeys(dict) THEN dict
                    ELSE Append(dict, << Head(keys), << >> >>),
                    Tail(keys))

\* [issue for issue in prioritized_issues if issue['priority_score'] <= 3][:10]
TopPriority(ranked, score) ==
  Take(SelectSeq(ranked, LAMBDA ref : score[ref] <= TopPriorityScore), TopPriorityCap)

\* the score stored on each finding that has one
Scores ==
  [ ref \in { i \in DOMAIN report_issues :
                report_issues[i].kind = "dict"
                /\ "priority_score" \in DOMAIN report_issues[i].d } |->
      report_issues[ref].d.priority_score ]

\* analyzer.generate_report(analysis, prioritized): what it prints is left
\* out; it reads the groups of the five severities and of three categories in
\* the defaultdicts of analysis, and builds the top priority list
GenerateReport ==
  /\ rpc = "prioritized"
  /\ analysis' =
       [ analysis EXCEPT
           !.by_severity =
              DictTouchAll(@, << "BLOCKER", "CRITICAL", "MAJOR", "MINOR", "INFO" >>),
           !.by_category =
              DictTouchAll(@, << "security", "memory", "error_handling" >>) ]
  /\ high_priority' = TopPriority(prioritized, Scores)
  /\ rpc' = "reported"
  /\ UNCHANGED <<cvars, pvars, svars, report_issues, prioritized, claude_report>>

\* analyzer.export_for_claude_review(prioritized, output_file): the report
\* that it writes, but for the time of day in it
ExportForClaudeReview ==
  /\ rpc \in { "prioritized", "reported" }
  /\ claude_report = << >>
  /\ claude_report' =
       << [ total_issues |-> Len(prioritized),
            high_priority |->
              Len(SelectSeq(prioritized, LAMBDA ref : Scores[ref] <= ExportHighScore)),
            medium_priority |->
              Len(SelectSeq(prioritized,
                            LAMBDA ref : /\ ExportHighScore < Scores[ref]
                                         /\ Scores[ref] <= ExportMediumScore)),
            high_priority_issues |-> Take(prioritized, ExportCap) ] >>
  /\ UNCHANGED <<cvars, pvars, svars, report_issues, analysis, prioritized, rpc,
                 high_priority>>

NextRank == AnalyzeIssues \/ PrioritizeIssues \/ GenerateReport \/ ExportForClaudeReview

SpecRank == InitRank /\ [][NextRank]_vars

(***************************************************************************)
(* C2: rank is a stable ascending sort                                     *)
(***************************************************************************)
\* the score stored on the finding object that reference ref points to
StoredScore(ref) == report_issues[ref].d.priority_score

\* C2: the ranked list is in non-decreasing priority_score order, and two
\* findings with the same score appear in it in the order they have in the
\* input list report['issues'] (a reference is a position in that list).
C2_StableRank ==
  rpc = "prioritized" =>
    \A p, q \in DOMAIN prioritized :
       p < q =>
         /\ StoredScore(prioritized[p]) <= StoredScore(prioritized[q])
         /\ StoredScore(prioritized[p]) = StoredScore(prioritized[q])
              => prioritized[p] < prioritized[q]

(***************************************************************************)
(* C7: one malformed finding never aborts the batch                        *)
(***************************************************************************)
\* C7: when the findings list holds an entry that is no object among valid
\* findings, the pass is not aborted: the entry is skipped and every valid
\* finding is categorized, and later ranked.
C7_MalformedSkipped ==
  LET valid == { i \in DOMAIN report_issues : report_issues[i].kind = "dict" }
      invalid == DOMAIN report_issues \ valid
  IN  (rpc # "loaded" /\ invalid # {} /\ valid # {}) =>
        /\ rpc # "raised"
        /\ Range(Flatten(analysis.by_category)) = valid
        /\ rpc = "prioritized" => Range(prioritized) = valid

(***************************************************************************)
(* review-checker.py: ReviewChecker                                        *)
(* A line's findings are records [level, category, message, suggestion];   *)
(* a detector adds the file path and the line number.                      *)
(***************************************************************************)
\* Issue(file_path, line_number, level, category, message, suggestion)
Issue(path, line_number, level, cat, message, suggestion) ==
  [ file_path |-> path, line_number |-> line_number, level |-> level,
    category |-> cat, message |-> message, suggestion |-> suggestion ]

\* a finding of one line, before its place in a file is known
Finding(level, cat, message, suggestion) ==
  [ level |-> level, category |-> cat, message |-> message, suggestion |-> suggestion ]

\* the Issues of line i of the file from the findings of the line
Located(path, i, findings) ==
  [ k \in DOMAIN findings |->
      Issue(path, i, findings[k].level, findings[k].category,
            findings[k].message, findings[k].suggestion) ]

\* os.path.basename(file_path)
Basename(path) == Split(path, "/")[Len(Split(path, "/"))]

\* \s*
Spaces == Star(Cls(Whitespace))
\* \w+
Word == Plus(Cls(WordChars))

\* the lines of a header that count for its guard: lines[:10]
GuardLines == 10

\* the header guard that _check_header_file expects
ExpectedGuard(path) ==
  "__" \o Replace(Replace(Upper(Basename(path)), ".", "_"), "-", "_") \o "__"

\* a guard check that looks at every line of the file
GuardFlaggedAnywhere(path, lines) ==
  LET expected_guard == ExpectedGuard(path)
      has_ifndef == \E i \in DOMAIN lines :
                       Contains(lines[i], "#ifndef " \o expected_guard)
      has_define == \E i \in DOMAIN lines :
                       Contains(lines[i], "#define " \o expected_guard)
  IN  ~has_ifndef \/ ~has_define

\* if not has_ifndef or not has_define
GuardFlagged(path, lines) ==
  LET expected_guard == ExpectedGuard(path)
      has_ifndef == \E i \in DOMAIN Take(lines, GuardLines) :
                       Contains(lines[i], "#ifndef " \o expected_guard)
      has_define == \E i \in DOMAIN Take(lines, GuardLines) :
                       Contains(lines[i], "#define " \o expected_guard)
  IN  ~has_ifndef \/ ~has_define

\* _check_header_file(file_path, lines, content)
check_header_file(path, lines, text) ==
  (IF GuardFlagged(path, lines)
   THEN << Issue(path, 1, "WARNING", "Header Guards",
                 "Header guard format may be incorrect",
                 "Expected: #ifndef " \o ExpectedGuard(path)
                   \o " / #define " \o ExpectedGuard(path)) >>
   ELSE << >>)
  \o
  (IF Contains(text, "struct no_os_spi_desc") /\ ~Contains(text, "#include \"no_os_spi.h\"")
   THEN << Issue(path, 1, "WARNING", "Missing Includes",
                 "Uses SPI structures but doesn't include no_os_spi.h",
                 "Add: #include \"no_os_spi.h\"") >>
   ELSE << >>)
  \o
  (IF Contains(text, "struct no_os_gpio_desc") /\ ~Contains(text, "#include \"no_os_gpio.h\"")
   THEN << Issue(path, 1, "WARNING", "Missing Includes",
                 "Uses GPIO structures but doesn't include no_os_gpio.h",
                 "Add: #include \"no_os_gpio.h\"") >>
   ELSE << >>)

\* _check_source_file(file_path, lines, content)
check_source_file(path, lines, text) ==
  (IF Contains(text, "no_os_calloc") /\ ~Contains(text, "#include \"no_os_alloc.h\"")
   THEN << Issue(path, 1, "WARNING", "Missing Includes",
                 "Uses no_os_calloc but doesn't include no_os_alloc.h",
                 "Add: #include \"no_os_alloc.h\"") >>
   ELSE << >>)
  \o
  (IF Contains(text, "no_os_mdelay") /\ ~Contains(text, "#include \"no_os_delay.h\"")
   THEN << Issue(path, 1, "WARNING", "Missing Includes",
                 "Uses no_os_mdelay but doesn't include no_os_delay.h",
                 "Add: #include \"no_os_delay.h\"") >>
   ELSE << >>)

(***************************************************************************)
(* The files handed to analyze_file.                                       *)
(***************************************************************************)
Paths == { "drivers/adc/ad7124.h", "drivers/adc/ad7124.c", "include/util.h" }

\* what the file system holds at the path: nothing, a readable file, a file
\* that open() is denied, a directory
FileStatuses == { "missing", "ok", "denied", "directory" }

\* str(e) of the exception that open(file_path) raises
ReadError(path, status) ==
  IF status = "denied" THEN "[Errno 13] Permission denied: '" \o path \o "'"
  ELSE "[Errno 21] Is a directory: '" \o path \o "'"

\* lines of driver code
LinePool ==
  { "",
    "no_os_spi_write(dev->spi_desc, buf, 2);",
    "ret = no_os_spi_init(&dev->spi_desc, p);",
    "no_os_spi_init(&desc);",
    "no_os_spi_init(&desc); no_os_mdelay(500);",
    "if (!dev) return -1;",
    "no_os_mdelay(500);",
    "no_os_udelay(010);",
    "x = 300;",
    "#define DEVICE_THRESHOLD 300",
    "int32_t ad7124_init(struct ad7124_dev **dev);",
    "void helper(void);",
    " * @brief",
    "val = (1 << 3) | (reg & 0xF0) >> 4;",
    "uint8_t *p = (uint8_t *)buf;",
    "#define AD7124_REG1 0x01",
    "#define AD7124_EN_MSK 0x80",
    "#define MODE_MSK 0x0F",
    "if (len < sizeof(int)) return;",
    "mask = 0xFF << 8;" }

\* lines of a header around its guard
GuardPool ==
  { "#ifndef __AD7124_H__",
    "#define __AD7124_H__",
    "struct no_os_spi_desc *spi_desc;",
    "#include \"no_os_spi.h\"" }

AllLines == LinePool \cup GuardPool

\* the texts of n lines of the pool, joined as they stand in a file
TextsOf(pool, n) == { Join(ls, "\n") : ls \in [1..n -> pool] }

RECURSIVE Blank(_)
\* n empty lines
Blank(n) == IF n = 0 THEN "" ELSE "\n" \o Blank(n - 1)

\* files of driver code: lines of the pool, files with a null check, some
\* blank lines and a dereference of a handle, and files of declarations and
\* documentation markers
CodeContents ==
  UNION { TextsOf(LinePool, n) : n \in 1..MaxLines }
  \cup { "if (!dev) return -1;" \o Blank(gap + 1)
           \o "no_os_spi_write(dev->spi_desc, buf, 2);" : gap \in 0..MaxGap }
  \cup UNION { TextsOf({ " * @brief", "void helper(void);",
                         "int32_t ad7124_init(struct ad7124_dev **dev);" }, n) :
                 n \in 1..MaxDocLines }

\* headers whose guard lines come after some blank lines
HeaderContents ==
  { Blank(pad) \o t : pad \in 0..MaxPad,
                      t \in UNION { TextsOf(GuardPool, n) : n \in 1..MaxGuardLines } }

(***************************************************************************)
(* _check_error_handling                                                   *)
(***************************************************************************)
\* no_os_\w+\([^)]*\);
CallPattern ==
  Cat(<< Lit("no_os_"), Word, Lit("("), Star(NotCls({ ")" })), Lit(");") >>)
\* (ret|result|status)\s*=
CapturePattern ==
  Cat(<< Alt(<< Lit("ret"), Lit("result"), Lit("status") >>), Spaces, Lit("=") >>)
\* ->\w+
ArrowPattern == Cat(<< Lit("->"), Word >>)
\* \b\w+->(?:spi_desc|gpio_\w+|i2c_desc)
HandlePattern ==
  Cat(<< WordB, Word, Lit("->"),
         Alt(<< Lit("spi_desc"), Cat(<< Lit("gpio_"), Word >>), Lit("i2c_desc") >>) >>)
\* if\s*\(.*!\w+
NullCheckPattern ==
  Cat(<< Lit("if"), Spaces, Lit("("), Star(AnyChar), Lit("!"), Word >>)

\* the calls whose result needs no check
SkipCalls == { "no_os_mdelay", "no_os_udelay", "no_os_free" }
\* the tokens that count as a guard on the line of a dereference
GuardTokens == { "if", "&&", "||", "?" }
\* the slice lines[max(0, i-5):i] holds this many lines, the last being line i
NullCheckWindow == 5

\* the first check of the loop body: a call whose result is not captured
UncheckedCall(line) ==
  /\ Search(CallPattern, line)
  /\ ~Search(CapturePattern, line)
  /\ ~\E skip \in SkipCalls : Contains(line, skip)

\* the second check, but for the lines before: a handle dereferenced with no
\* guard token on the line
UnguardedHandle(line) ==
  /\ Search(ArrowPattern, line)
  /\ ~\E check \in GuardTokens : Contains(line, check)
  /\ Search(HandlePattern, line)

\* what the loop of _check_error_handling asks of a line, each line of the pool
\* looked at once
ErrorHandlingOfLine ==
  [ line \in AllLines |->
      [ unchecked |-> UncheckedCall(line), unguarded |-> UnguardedHandle(line),
        null_check |-> Search(NullCheckPattern, line) ] ]

(***************************************************************************)
(* _check_documentation                                                    *)
(***************************************************************************)
\* ^int\d*_t\s+\w+.*\(
IntFunctionPattern ==
  Cat(<< Bol, Lit("int"), Star(Cls(Digits)), Lit("_t"), Plus(Cls(Whitespace)), Word,
         Star(AnyChar), Lit("(") >>)
\* ^void\s+\w+.*\(
VoidFunctionPattern ==
  Cat(<< Bol, Lit("void"), Plus(Cls(Whitespace)), Word, Star(AnyChar), Lit("(") >>)

\* what the loop of _check_documentation asks of a line
DocumentationOfLine ==
  [ line \in AllLines |->
      [ function |-> Match(IntFunctionPattern, line) \/ Match(VoidFunctionPattern, line),
        doxygen |-> \/ Contains(line, "@brief") \/ Contains(line, "@param")
                    \/ Contains(line, "@return"),
        incomplete |-> Contains(line, "@brief") /\ EndsWith(Strip(line), "@brief") ] ]

(***************************************************************************)
(* _check_magic_numbers                                                    *)
(***************************************************************************)
\* self.allowed_magic_numbers
allowed_magic_numbers ==
  { "0", "1", "2", "8", "16", "32", "64", "100", "1000",
    "0x00", "0x01", "0xFF", "0x80" }

\* the two alternatives of \b(\d+|0x[0-9A-Fa-f]+)\b, each between its \b
DecimalPattern == Cat(<< WordB, Plus(Cls(Digits)), WordB >>)
HexPattern == Cat(<< WordB, Lit("0x"), Plus(Cls(HexDigits)), WordB >>)

\* the largest member of a set of positions
MaxOf(S) == CHOOSE m \in S : \A x \in S : x <= m

RECURSIVE FindNumbers(_, _)
\* re.findall(r'\b(\d+|0x[0-9A-Fa-f]+)\b', line) from position p on: the matches
\* left to right without overlap, the first alternative tried first, each
\* repetition as long as it can be
FindNumbers(line, p) ==
  IF p > Len(line) THEN << >>
  ELSE LET dec == Ends(DecimalPattern, line, p)
           hex == Ends(HexPattern, line, p)
           e == IF dec # {} THEN MaxOf(dec) ELSE IF hex # {} THEN MaxOf(hex) ELSE p
       IN  IF e > p THEN << SubSeq(line, p + 1, e) >> \o FindNumbers(line, e)
           ELSE FindNumbers(line, p + 1)

\* the value of one digit
DigitValue(c) ==
  IF c \in Digits THEN CHOOSE v \in 0..9 : ToString(v) = c
  ELSE IF IndexIn(<<"a", "b", "c", "d", "e", "f">>, c) > 0
  THEN 9 + IndexIn(<<"a", "b", "c", "d", "e", "f">>, c)
  ELSE 9 + IndexIn(<<"A", "B", "C", "D", "E", "F">>, c)

RECURSIVE DigitsValue(_, _, _)
\* the number that the digits stand for in the base, acc being the value so far
DigitsValue(digits, base, acc) ==
  IF digits = "" THEN acc
  ELSE DigitsValue(Tail(digits), base, acc * base + DigitValue(Head(digits)))

\* int(number, 0 if not number.startswith('0x') else 16): base 0 refuses a
\* decimal literal with a leading zero unless all its digits are zero
ParseInt(number) ==
  IF StartsWith(number, "0x")
  THEN [ ok |-> TRUE, value |-> DigitsValue(SubSeq(number, 3, Len(number)), 16, 0) ]
  ELSE IF Len(number) > 1 /\ Head(number) = "0"
          /\ \E i \in 1..Len(number) : Ch(number, i) # "0"
  THEN [ ok |-> FALSE, value |-> 0 ]
  ELSE [ ok |-> TRUE, value |-> DigitsValue(number, 10, 0) ]

\* \[.*N.*\]|<<\s*N|>>\s*N for the literal N
BoundsOrShiftPattern(number) ==
  Alt(<< Cat(<< Lit("["), Star(AnyChar), Lit(number), Star(AnyChar), Lit("]") >>),
         Cat(<< Lit("<<"), Spaces, Lit(number) >>),
         Cat(<< Lit(">>"), Spaces, Lit(number) >>) >>)

\* the literals of the line that reach the two checks, in order
CheckedNumbers(line) ==
  SelectSeq(FindNumbers(line, 0),
            LAMBDA number :
              /\ number \notin allowed_magic_numbers
              /\ ~Contains(line, "#define")
              /\ ~Search(BoundsOrShiftPattern(number), line))

\* the delay check of one literal; its int() is outside the try block
DelayFinding(line, number) ==
  IF Contains(Lower(line), "delay") /\ ParseInt(number).ok /\ ParseInt(number).value > 10
  THEN << Finding("INFO", "Magic Numbers",
                  "Consider defining delay constant: " \o number,
                  "#define DEVICE_RESET_DELAY_MS " \o number) >>
  ELSE << >>

\* a large-number check that looks at lines of delay calls only
LargeFindingOnDelay(line, number) ==
  IF ParseInt(number).ok /\ ParseInt(number).value > 255
     /\ Contains(Lower(line), "delay")
  THEN << Finding("INFO", "Magic Numbers",
                  "Large number might need a constant: " \o number,
                  "Consider: #define DEVICE_REG_VALUE " \o number) >>
  ELSE << >>

\* the large-number check of one literal; a ValueError of its int() is passed
LargeFinding(line, number) ==
  IF ParseInt(number).ok /\ ParseInt(number).value > 255
     /\ ~Contains(Lower(line), "define")
  THEN << Finding("INFO", "Magic Numbers",
                  "Large number might need a constant: " \o number,
                  "Consider: #define DEVICE_REG_VALUE " \o number) >>
  ELSE << >>

\* the line is skipped as a comment or a string
IsCommentOrString(line) ==
  Contains(line, "//") \/ Contains(line, "/*") \/ Contains(line, "\"")

\* the body of the loop of _check_magic_numbers for each line of the pool: the
\* ValueError of the delay check, if any, and the findings otherwise
MagicOfLine ==
  [ line \in AllLines |->
  IF IsCommentOrString(line) THEN [ raised |-> FALSE, findings |-> << >> ]
  ELSE LET numbers == CheckedNumbers(line)
       IN  [ raised |-> /\ Contains(Lower(line), "delay")
                        /\ \E k \in DOMAIN numbers : ~ParseInt(numbers[k]).ok,
             findings |-> Concat([ k \in DOMAIN numbers |->
                                     DelayFinding(line, numbers[k])
                                     \o LargeFinding(line, numbers[k]) ]) ] ]

(***************************************************************************)
(* _check_type_safety                                                      *)
(***************************************************************************)
\* \(\s*(uint\d+_t|int\d+_t)\s*\*\s*\)
UnsafeCastPattern ==
  Cat(<< Lit("("), Spaces,
         Alt(<< Cat(<< Lit("uint"), Plus(Cls(Digits)), Lit("_t") >>),
                Cat(<< Lit("int"), Plus(Cls(Digits)), Lit("_t") >>) >>),
         Spaces, Lit("*"), Spaces, Lit(")") >>)
\* if\s*\([^)]*[<>]=?\s*sizeof
SizeofComparePattern ==
  Cat(<< Lit("if"), Spaces, Lit("("), Star(NotCls({ ")" })), Cls({ "<", ">" }),
         Opt(Lit("=")), Spaces, Lit("sizeof") >>)

\* the body of the loop of _check_type_safety for each line of the pool
TypeSafetyOfLine ==
  [ line \in AllLines |->
  (IF Search(UnsafeCastPattern, line)
   THEN << Finding("WARNING", "Type Safety", "Potentially unsafe pointer cast",
                   "Consider using no_os_get_unaligned_*() functions for safe access") >>
   ELSE << >>)
  \o
  (IF Search(SizeofComparePattern, line) /\ Contains(line, "int")
   THEN << Finding("WARNING", "Type Safety",
                   "Comparing signed value with sizeof (unsigned)",
                   "Use unsigned types for size comparisons") >>
   ELSE << >>) ]

(***************************************************************************)
(* _check_naming_conventions                                               *)
(***************************************************************************)
\* self.device_prefixes
device_prefixes == << "ad", "adm", "adf", "adt", "ltc", "max", "lt", "cn" >>

\* _extract_device_name(file_path)
extract_device_name(path) ==
  LET name == Split(Basename(path), ".")[1]
  IN  IF \E k \in DOMAIN device_prefixes : StartsWith(name, device_prefixes[k])
      THEN name ELSE ""

\* #define\s+(\w+)
DefinePattern == Cat(<< Lit("#define"), Plus(Cls(Whitespace)), Word >>)
\* .*_(REG|REGISTER)\d+$
RegisterNamePattern ==
  Cat(<< Star(AnyChar), Lit("_"), Alt(<< Lit("REG"), Lit("REGISTER") >>),
         Plus(Cls(Digits)), Eol >>)
\* ^\w+\s+(\w+)\s*\(
FunctionPattern ==
  Cat(<< Bol, Word, Plus(Cls(Whitespace)), Word, Spaces, Lit("(") >>)

\* group 1 of re.match(r'#define\s+(\w+)', line): the longest word after the spaces
DefineName(line) ==
  LET a == RunEnd(line, Len("#define"), Whitespace)
  IN  SubSeq(line, a + 1, RunEnd(line, a, WordChars))

\* group 1 of re.match(r'^\w+\s+(\w+)\s*\(', line): the second word
FunctionName(line) ==
  LET a == RunEnd(line, RunEnd(line, 0, WordChars), Whitespace)
  IN  SubSeq(line, a + 1, RunEnd(line, a, WordChars))

\* the body of the loop of _check_naming_conventions for each line of the pool
\* in each file
NamingOfLine ==
  [ path \in Paths |-> [ line \in AllLines |->
  LET device_name == extract_device_name(path)
      is_header == EndsWith(path, ".h")
  IN
  (IF Match(DefinePattern, line)
   THEN LET define_name == DefineName(line)
        IN  (IF /\ device_name # ""
                /\ ~StartsWith(define_name, Upper(device_name))
                /\ ~\E ex \in { "__", "NO_OS_", "BIT", "GENMASK" } :
                      StartsWith(define_name, ex)
             THEN << Finding("INFO", "Naming Convention",
                             "Macro doesn't follow device prefix convention",
                             "Consider: " \o Upper(device_name) \o "_" \o define_name) >>
             ELSE << >>)
            \o
            (IF Match(RegisterNamePattern, define_name)
             THEN << Finding("INFO", "Naming Convention",
                             "Non-descriptive register name",
                             "Use descriptive names: DEVICE_REG_STATUS instead of DEVICE_REG1") >>
             ELSE << >>)
   ELSE << >>)
  \o
  (IF Match(FunctionPattern, line) /\ is_header
   THEN LET func_name == FunctionName(line)
        IN  IF /\ device_name # ""
               /\ ~StartsWith(func_name, Lower(device_name))
               /\ ~\E ex \in { "no_os_", "main", "init" } : StartsWith(func_name, ex)
            THEN << Finding("INFO", "Naming Convention",
                            "Function doesn't follow device prefix convention",
                            "Consider: " \o Lower(device_name) \o "_" \o func_name) >>
            ELSE << >>
   ELSE << >>) ] ]

(***************************************************************************)
(* _check_bit_operations                                                   *)
(***************************************************************************)
\* \(1\s*<<\s*(\d+)\)
BitShiftPattern ==
  Cat(<< Lit("(1"), Spaces, Lit("<<"), Spaces, Plus(Cls(Digits)), Lit(")") >>)
\* genmask_patterns
genmask_patterns ==
  << Cat(<< Lit("((1"), Spaces, Lit("<<"), Spaces, Plus(Cls(Digits)), Lit(")"), Spaces,
            Lit("-"), Spaces, Lit("1)"), Spaces, Lit("<<"), Spaces, Plus(Cls(Digits)) >>),
     Cat(<< Lit("0x"), Plus(Cls({ "f", "F" })), Spaces, Lit("<<"), Spaces,
            Plus(Cls(Digits)) >>) >>
\* \(\s*\w+\s*<<\s*\d+\s*\)\s*&\s*\w+
field_prep_pattern ==
  Cat(<< Lit("("), Spaces, Word, Spaces, Lit("<<"), Spaces, Plus(Cls(Digits)), Spaces,
         Lit(")"), Spaces, Lit("&"), Spaces, Word >>)
\* \(\s*\w+\s*&\s*\w+\s*\)\s*>>\s*\d+
field_get_pattern ==
  Cat(<< Lit("("), Spaces, Word, Spaces, Lit("&"), Spaces, Word, Spaces, Lit(")"),
         Spaces, Lit(">>"), Spaces, Plus(Cls(Digits)) >>)
\* #define\s+(\w+)\s+(0x[0-9A-Fa-f]+)
HexDefinePattern ==
  Cat(<< Lit("#define"), Plus(Cls(Whitespace)), Word, Plus(Cls(Whitespace)),
         Lit("0x"), Plus(Cls(HexDigits)) >>)

\* where the leftmost match of re.search(r, s) starts (r matches somewhere)
FirstStart(r, s) ==
  CHOOSE p \in 0..Len(s) :
    Ends(r, s, p) # {} /\ \A q \in 0..(p - 1) : Ends(r, s, q) = {}

\* group 1 of the leftmost match of BitShiftPattern
BitNum(line) ==
  LET a == RunEnd(line, FirstStart(BitShiftPattern, line) + Len("(1"), Whitespace)
      b == RunEnd(line, a + Len("<<"), Whitespace)
  IN  SubSeq(line, b + 1, RunEnd(line, b, Digits))

\* groups 1 and 2 of the leftmost match of HexDefinePattern
HexDefineGroups(line) ==
  LET a == RunEnd(line, FirstStart(HexDefinePattern, line) + Len("#define"), Whitespace)
      b == RunEnd(line, a, WordChars)
      c == RunEnd(line, b, Whitespace)
  IN  [ name |-> SubSeq(line, a + 1, b),
        value |-> SubSeq(line, c + 1, RunEnd(line, c + Len("0x"), HexDigits)) ]

RECURSIVE IsPowerOfTwo(_)
IsPowerOfTwo(n) == n = 1 \/ (n > 1 /\ n % 2 = 0 /\ IsPowerOfTwo(n \div 2))

RECURSIVE BitLength(_)
\* int.bit_length()
BitLength(n) == IF n = 0 THEN 0 ELSE 1 + BitLength(n \div 2)

\* the findings of the two checks of a '#define NAME 0x..' line
HexDefineFindings(line) ==
  LET g == HexDefineGroups(line)
      v == DigitsValue(SubSeq(g.value, 3, Len(g.value)), 16, 0)
  IN  (IF v > 0 /\ IsPowerOfTwo(v + 1) /\ BitLength(v) - 1 > 0
          /\ Contains(g.name, "_MSK")
       THEN << Finding("INFO", "Bit Operations",
                       "Consider using NO_OS_GENMASK(" \o ToString(BitLength(v) - 1)
                         \o ", 0) for mask definition",
                       "#define " \o g.name \o " NO_OS_GENMASK("
                         \o ToString(BitLength(v) - 1) \o ", 0)") >>
       ELSE << >>)
      \o
      (IF v > 0 /\ IsPowerOfTwo(v)
          /\ (Contains(g.name, "BIT") \/ Contains(g.name, "MSK"))
       THEN << Finding("INFO", "Bit Operations",
                       "Consider using NO_OS_BIT(" \o ToString(BitLength(v) - 1)
                         \o ") for single bit definition",
                       "#define " \o g.name \o " NO_OS_BIT("
                         \o ToString(BitLength(v) - 1) \o ")") >>
       ELSE << >>)

\* the body of the loop of _check_bit_operations for each line of the pool
BitOperationsOfLine ==
  [ line \in AllLines |->
  IF IsCommentOrString(line) THEN << >>
  ELSE
    (IF Search(BitShiftPattern, line)
     THEN << Finding("INFO", "Bit Operations",
                     "Use NO_OS_BIT(" \o BitNum(line) \o ") instead of (1 << "
                       \o BitNum(line) \o ")",
                     "Replace with: NO_OS_BIT(" \o BitNum(line) \o ")") >>
     ELSE << >>)
    \o
    Concat([ k \in DOMAIN genmask_patterns |->
               IF Search(genmask_patterns[k], line)
               THEN << Finding("INFO", "Bit Operations",
                               "Consider using NO_OS_GENMASK for bit field masks",
                               "Use: NO_OS_GENMASK(high_bit, low_bit) for multi-bit fields") >>
               ELSE << >> ])
    \o
    (IF Search(field_prep_pattern, line)
     THEN << Finding("INFO", "Bit Operations",
                     "Consider using no_os_field_prep() for field preparation",
                     "Use: no_os_field_prep(MASK, value)") >>
     ELSE << >>)
    \o
    (IF Search(field_get_pattern, line)
     THEN << Finding("INFO", "Bit Operations",
                     "Consider using no_os_field_get() for field extraction",
                     "Use: no_os_field_get(MASK, reg_value)") >>
     ELSE << >>)
    \o
    (IF Contains(line, "#define") /\ Search(HexDefinePattern, line)
     THEN HexDefineFindings(line)
     ELSE << >>) ]

\* _check_error_handling(file_path, lines)
check_error_handling(path, lines) ==
  Concat([ i \in DOMAIN lines |->
    Located(path, i,
      (IF ErrorHandlingOfLine[lines[i]].unchecked
       THEN << Finding("WARNING", "Error Handling",
                       "no-OS function call without return value check",
                       "Consider: ret = no_os_function(); if (ret < 0) return ret;") >>
       ELSE << >>)
      \o
      (IF /\ ErrorHandlingOfLine[lines[i]].unguarded
          /\ ~\E j \in (i - NullCheckWindow + 1)..i :
                j >= 1 /\ ErrorHandlingOfLine[lines[j]].null_check
       THEN << Finding("WARNING", "Error Handling",
                       "Potential null pointer dereference",
                       "Add null check: if (!dev || !dev->spi_desc) return -EINVAL;") >>
       ELSE << >>)) ])

RECURSIVE DocumentationFrom(_, _, _, _)
\* the loop of _check_documentation from line i on, has_doxygen as it stands
DocumentationFrom(path, lines, i, has_doxygen) ==
  IF i > Len(lines) THEN << >>
  ELSE LET d == DocumentationOfLine[lines[i]]
       IN  Located(path, i,
             (IF d.function /\ EndsWith(path, ".h") /\ ~has_doxygen
              THEN << Finding("WARNING", "Documentation",
                              "Public function missing Doxygen documentation",
                              "Add: /** @brief ... */ comment block before function") >>
              ELSE << >>)
             \o
             (IF d.incomplete
              THEN << Finding("INFO", "Documentation",
                              "Incomplete @brief description",
                              "Add meaningful description after @brief") >>
              ELSE << >>))
           \o DocumentationFrom(path, lines, i + 1,
                                d.doxygen \/ (has_doxygen /\ ~d.function))

\* a detector whose has_doxygen lives on the checker and outlasts the scan
\* of a file with a marker
check_documentation_carried(path, lines) ==
  DocumentationFrom(path, lines, 1,
    \E k \in DOMAIN scans :
       \/ Contains(scans[k].file.content, "@brief")
       \/ Contains(scans[k].file.content, "@param")
       \/ Contains(scans[k].file.content, "@return"))

\* _check_documentation(file_path, lines)
check_documentation(path, lines) == DocumentationFrom(path, lines, 1, FALSE)

\* _check_magic_numbers(file_path, lines): the ValueError that leaves it, if
\* any, and the issues that it returns otherwise
check_magic_numbers(path, lines) ==
  [ raised |-> \E i \in DOMAIN lines : MagicOfLine[lines[i]].raised,
    issues |-> Concat([ i \in DOMAIN lines |->
                          Located(path, i, MagicOfLine[lines[i]].findings) ]) ]

\* _check_type_safety(file_path, lines)
check_type_safety(path, lines) ==
  Concat([ i \in DOMAIN lines |-> Located(path, i, TypeSafetyOfLine[lines[i]]) ])

\* _check_naming_conventions(file_path, lines)
check_naming_conventions(path, lines) ==
  Concat([ i \in DOMAIN lines |-> Located(path, i, NamingOfLine[path][lines[i]]) ])

\* _check_bit_operations(file_path, lines)
check_bit_operations(path, lines) ==
  Concat([ i \in DOMAIN lines |-> Located(path, i, BitOperationsOfLine[lines[i]]) ])

\* analyze_file(file_path): whether an exception leaves it, and the list that
\* it returns otherwise
analyze_file(path, status, text) ==
  IF status = "missing" THEN [ raised |-> FALSE, issues |-> << >> ]
  ELSE IF status # "ok"
  THEN [ raised |-> FALSE,
         issues |-> << Issue(path, 0, "ERROR", "File Access",
                             "Could not read file: " \o ReadError(path, status), "") >> ]
  ELSE LET lines == Split(text, "\n")
           magic == check_magic_numbers(path, lines)
       IN  IF magic.raised THEN [ raised |-> TRUE, issues |-> << >> ]
           ELSE [ raised |-> FALSE,
                  issues |-> (IF EndsWith(path, ".h")
                              THEN check_header_file(path, lines, text)
                              ELSE IF EndsWith(path, ".c")
                              THEN check_source_file(path, lines, text)
                              ELSE << >>)
                             \o check_error_handling(path, lines)
                             \o check_documentation(path, lines)
                             \o magic.issues
                             \o check_type_safety(path, lines)
                             \o check_naming_conventions(path, lines)
                             \o check_bit_operations(path, lines) ]

(***************************************************************************)
(* One scan of one file by review-checker.py.                              *)
(***************************************************************************)
InitScan ==
  /\ PatternsIdle
  /\ RankIdle
  /\ category = ""
  /\ comment_text = ""
  /\ file_path \in Paths
  /\ file_status \in FileStatuses
  /\ content \in IF file_status = "ok" THEN CodeContents \cup HeaderContents ELSE { "" }
  /\ file_issues = << >>
  /\ spc = "ready"
  /\ argv = << >>
  /\ argi = 0
  /\ checker_issues = << >>
  /\ scans = << >>
  /\ exit_status = -1

\* file_issues = checker.analyze_file(file_path)
AnalyzeFile ==
  /\ spc = "ready"
  /\ LET r == analyze_file(file_path, file_status, content)
     IN  /\ file_issues' = r.issues
         /\ spc' = IF r.raised THEN "raised" ELSE "returned"
  /\ UNCHANGED <<file_path, file_status, content, cvars, pvars, rvars,
                 argv, argi, checker_issues, scans, exit_status>>

NextScan == AnalyzeFile

SpecScan == InitScan /\ [][NextScan]_vars

(***************************************************************************)
(* One run of review-checker.py: main                                      *)
(***************************************************************************)
\* the files a command line can name, each with what the file system holds at
\* its path when it is scanned
MainFiles ==
  { [ path |-> "drivers/adc/ad7124.c", status |-> "ok",
      content |-> "no_os_spi_write(dev->spi_desc, buf, 2);" ],
    [ path |-> "drivers/adc/ad7124.h", status |-> "ok",
      content |-> "void helper(void);" ],
    [ path |-> "include/util.h", status |-> "ok", content |-> " * @brief" ],
    [ path |-> "drivers/adc/ad7124.c", status |-> "ok",
      content |-> "no_os_udelay(010);" ],
    [ path |-> "drivers/adc/ad7124.c", status |-> "denied", content |-> "" ],
    [ path |-> "drivers/adc/ad7124.h", status |-> "directory", content |-> "" ],
    [ path |-> "include/util.h", status |-> "missing", content |-> "" ],
    [ path |-> "README.md", status |-> "denied", content |-> "" ] }

InitMain ==
  /\ comment_text = ""
  /\ category = ""
  /\ PatternsIdle
  /\ RankIdle
  /\ file_path = ""
  /\ file_status = "missing"
  /\ content = ""
  /\ file_issues = << >>
  /\ spc = "idle"
  /\ argv \in UNION { [1..n -> MainFiles] : n \in 0..MaxArgs }
  /\ argi = 0
  /\ checker_issues = << >>
  /\ scans = << >>
  /\ exit_status = -1

\* if len(sys.argv) < 2: sys.exit(1)
Usage ==
  /\ exit_status = -1
  /\ argv = << >>
  /\ exit_status' = 1
  /\ UNCHANGED <<cvars, pvars, rvars, file_path, file_status, content, file_issues,
                 spc, argv, argi, checker_issues, scans>>

\* one turn of the loop over sys.argv[1:]: a file that is neither .c nor .h is
\* passed over; a ValueError that leaves analyze_file ends the run with a
\* traceback and exit status 1
ScanArgument ==
  /\ exit_status = -1
  /\ argi < Len(argv)
  /\ argi' = argi + 1
  /\ LET f == argv[argi + 1]
     IN  IF ~(EndsWith(f.path, ".c") \/ EndsWith(f.path, ".h"))
         THEN UNCHANGED <<file_path, file_status, content, file_issues, spc,
                          checker_issues, scans, exit_status>>
         ELSE LET r == analyze_file(f.path, f.status, f.content)
              IN  /\ file_path' = f.path
                  /\ file_status' = f.status
                  /\ content' = f.content
                  /\ IF r.raised
                     THEN /\ spc' = "raised"
                          /\ exit_status' = 1
                          /\ UNCHANGED <<file_issues, checker_issues, scans>>
                     ELSE /\ spc' = "returned"
                          /\ file_issues' = r.issues
                          /\ checker_issues' = checker_issues \o r.issues
                          /\ scans' = Append(scans, [ file |-> f, issues |-> r.issues ])
                          /\ UNCHANGED exit_status
  /\ UNCHANGED <<cvars, pvars, rvars, argv>>

\* the end of main: sys.exit(1) if checker.get_error_count() > 0 else
\* sys.exit(0), get_error_count being the number of issues of checker.issues
\* whose level is ERROR
ExitMain ==
  /\ exit_status = -1
  /\ argv # << >>
  /\ argi = Len(argv)
  /\ LET error_count ==
           Cardinality({ k \in DOMAIN checker_issues :
                           checker_issues[k].level = "ERROR" })
     IN  exit_status' = IF error_count > 0 THEN 1 ELSE 0
  /\ UNCHANGED <<cvars, pvars, rvars, file_path, file_status, content, file_issues,
                 spc, argv, argi, checker_issues, scans>>

NextMain == Usage \/ ScanArgument \/ ExitMain

SpecMain == InitMain /\ [][NextMain]_vars

(***************************************************************************)
(* Properties of one scan.                                                 *)
(***************************************************************************)
\* the scan has returned its list for a file that was read
Scanned == spc = "returned" /\ file_status = "ok"

\* the lines of the scanned file
ScannedLines == Split(content, "\n")

\* the issues of the returned list that carry one of the categories
IssuesOf(cats) == SelectSeq(file_issues, LAMBDA issue : issue.category \in cats)

\* C4: the list that analyze_file returns is in non-decreasing line-number
\* order, issues of one line standing in detector order
C4_LineOrdered ==
  spc = "returned" =>
    \A i, j \in DOMAIN file_issues :
      i < j => file_issues[i].line_number <= file_issues[j].line_number

\* C5: no two issues of one scan share their (path, line, category) triple
C5_NoDuplicateTriples ==
  spc = "returned" =>
    \A i, j \in DOMAIN file_issues :
      i # j => \/ file_issues[i].file_path # file_issues[j].file_path
               \/ file_issues[i].line_number # file_issues[j].line_number
               \/ file_issues[i].category # file_issues[j].category

\* the 16 categories of the enumeration, each with the spellings under which
\* the three tools write it
TaxonomySpellings ==
  << <<"ErrorHandling", { "Error Handling", "error_handling" }>>,
     <<"Documentation", { "Documentation" }>>,
     <<"HeaderGuardsIncludes",
       { "Header Guards/Includes", "Header Guards", "Missing Includes" }>>,
     <<"ConstantsMagicNumbers", { "Constants/Magic Numbers", "Magic Numbers" }>>,
     <<"NamingConvention", { "Naming Convention" }>>,
     <<"CodeStyle", { "Code Style" }>>,
     <<"TypeSafety", { "Type Safety" }>>,
     <<"Performance", { "Performance", "performance" }>>,
     <<"Security", { "Security", "security" }>>,
     <<"Testing", { "Testing" }>>,
     <<"PlatformCompatibility", { "Platform Compatibility" }>>,
     <<"TyposGrammar", { "Typos/Grammar" }>>,
     <<"CodeOrganization", { "Code Organization" }>>,
     <<"BitOperations", { "Bit Operations" }>>,
     <<"Other", { "Other", "other" }>>,
     <<"Uncategorized", { "Uncategorized" }>> >>

\* every tag that names a member of the enumeration
TaxonomyTags == UNION { TaxonomySpellings[k][2] : k \in DOMAIN TaxonomySpellings }

\* C6: every category that categorize_comment, analyze_file (its file-read
\* failure path included) and categorize_rule produce is a member of the
\* 16-element enumeration
C6_ClosedTaxonomy ==
  /\ category # "" => category \in TaxonomyTags
  /\ spc = "returned" =>
       \A k \in DOMAIN file_issues : file_issues[k].category \in TaxonomyTags
  /\ rpc \in { "analyzed", "prioritized" } =>
       DictKeys(analysis.by_category) \subseteq TaxonomyTags

\* C8: analyze_file returns a list for every path and every content, lines
\* with "delay" and a decimal literal with a leading zero included; no
\* exception leaves it
C8_NeverRaises == spc # "raised"

\* C9: the scan of a file whose content is empty returns no issue, whatever
\* the kind of the file
C9_EmptyContentNoIssues == (Scanned /\ content = "") => file_issues = << >>

\* neither form of the expected guard stands in the first 10 lines of the
\* scanned file
NoGuardFormInHead ==
  \A i \in DOMAIN ScannedLines :
    i <= GuardLines =>
      /\ ~Contains(ScannedLines[i], "#ifndef " \o ExpectedGuard(file_path))
      /\ ~Contains(ScannedLines[i], "#define " \o ExpectedGuard(file_path))

\* both forms of the expected guard stand in the scanned file, after line 10
GuardFormsBelowHead ==
  /\ \E i \in DOMAIN ScannedLines :
       i > GuardLines
       /\ Contains(ScannedLines[i], "#ifndef " \o ExpectedGuard(file_path))
  /\ \E i \in DOMAIN ScannedLines :
       i > GuardLines
       /\ Contains(ScannedLines[i], "#define " \o ExpectedGuard(file_path))

\* the scan of a header with neither guard form in its first 10 lines has returned
UnguardedHeaderScanned == Scanned /\ EndsWith(file_path, ".h") /\ NoGuardFormInHead

\* C10 as stated: the scan of a header whose first 10 lines hold neither form
\* of the expected guard returns exactly one issue of the header guards and
\* includes category (guard and missing-include issues together), at line 1
C10_OneGuardsIncludesIssue ==
  UnguardedHeaderScanned =>
    /\ Len(IssuesOf({ "Header Guards", "Missing Includes" })) = 1
    /\ IssuesOf({ "Header Guards", "Missing Includes" })[1].line_number = 1

\* C10: the scan of a header whose first 10 lines hold neither form of the
\* expected guard returns exactly one header-guard issue, at line 1, guard
\* forms after line 10 notwithstanding; missing-include issues of the same
\* check may stand next to it
C10_OneHeaderGuardIssue ==
  UnguardedHeaderScanned =>
    /\ Len(IssuesOf({ "Header Guards" })) = 1
    /\ IssuesOf({ "Header Guards" })[1].line_number = 1

\* a header whose guard forms stand only after line 10 has been scanned and flagged
C10_Witness ==
  /\ UnguardedHeaderScanned
  /\ GuardFormsBelowHead
  /\ Len(IssuesOf({ "Header Guards" })) = 1

(***************************************************************************)
(* C11: magic numbers of definition lines and of other lines               *)
(***************************************************************************)
\* the issues of a category that the returned list holds for line i
IssuesAt(i, cat) ==
  SelectSeq(file_issues, LAMBDA issue : issue.line_number = i /\ issue.category = cat)

\* C11: in a returned scan, a line that holds a #define (such as
\* "#define DEVICE_THRESHOLD 300") has no magic-number issue, and the line
\* "x = 300;" has the named-constant issue for 300 on that line
C11_DefineExemptLiteralFlagged ==
  Scanned =>
    \A i \in DOMAIN ScannedLines :
      /\ Contains(ScannedLines[i], "#define") => IssuesAt(i, "Magic Numbers") = << >>
      /\ ScannedLines[i] = "x = 300;" =>
           /\ Len(IssuesAt(i, "Magic Numbers")) = 1
           /\ IssuesAt(i, "Magic Numbers")[1].message
                = "Large number might need a constant: 300"

\* a file with both lines of the scenario has been scanned
C11_Witness ==
  /\ Scanned
  /\ \E i, j \in DOMAIN ScannedLines :
       /\ ScannedLines[i] = "#define DEVICE_THRESHOLD 300"
       /\ ScannedLines[j] = "x = 300;"
       /\ IssuesAt(i, "Magic Numbers") = << >>
       /\ IssuesAt(j, "Magic Numbers") # << >>

(***************************************************************************)
(* C12: category resolution of a linter rule                               *)
(***************************************************************************)
\* the report has been analyzed
Analyzed == rpc \in { "analyzed", "prioritized" }

\* the rule ids that the findings of the pool carry
RulesOfPool == { Get(f, "rule", "") : f \in ObjectPool }

\* the places in the table of the categories that list a rule id occurring in the rule
MatchingCategories ==
  [ r \in RulesOfPool |->
      { c \in DOMAIN rule_categories :
          \E i \in DOMAIN rule_categories[c][2] : Contains(r, rule_categories[c][2][i]) } ]

\* the category under which analyze_issues has filed the finding of the reference
FiledCategory(ref) ==
  analysis.by_category[CHOOSE k \in DOMAIN analysis.by_category :
                         ref \in Range(analysis.by_category[k][2])][1]

\* the rule id of the finding of the reference
RuleOf(ref) == Get(report_issues[ref], "rule", "")

\* C12: every finding is filed under the first category, in the order of the
\* table, that lists a rule id occurring in the finding's rule id, and under
\* 'other' when no category does; squid:S1313, listed under security and
\* performance, is filed under security
C12_FirstMatchingCategory ==
  Analyzed =>
    \A ref \in DOMAIN report_issues :
      /\ \E k \in DOMAIN analysis.by_category : ref \in Range(analysis.by_category[k][2])
      /\ IF MatchingCategories[RuleOf(ref)] = {}
         THEN FiledCategory(ref) = "other"
         ELSE \E c \in MatchingCategories[RuleOf(ref)] :
                /\ \A b \in MatchingCategories[RuleOf(ref)] : c <= b
                /\ FiledCategory(ref) = rule_categories[c][1]
      /\ RuleOf(ref) = "squid:S1313" => FiledCategory(ref) = "security"

\* a report with the rule of two categories and a rule of none has been analyzed
C12_Witness ==
  /\ Analyzed
  /\ \E p, q \in DOMAIN report_issues :
       /\ RuleOf(p) = "squid:S1313" /\ FiledCategory(p) = "security"
       /\ MatchingCategories[RuleOf(q)] = {} /\ FiledCategory(q) = "other"

(***************************************************************************)
(* C13: precedence of the suggestion table                                 *)
(***************************************************************************)
\* the places in the suggestion table of the rule ids occurring in the rule
TableRules ==
  [ r \in RulesOfPool |->
      { i \in DOMAIN suggestions : Contains(r, suggestions[i][1]) } ]

\* the suggestions drawn from the message, and the generic one
FallbackSuggestions ==
  { "Break into smaller functions following no-OS single-responsibility pattern",
    "Use descriptive variable names with device/component context",
    "Review memory management - use no_os_alloc/no_os_free consistently",
    "Improve error handling - return specific error codes, check all return values",
    "Review SonarCloud documentation for this rule" }

\* the message of the finding holds a keyword of some message suggestion
HasKeywordMessage(ref) ==
  \E w \in { "function", "variable", "memory", "error" } :
     Contains(Lower(Get(report_issues[ref], "message", "")), w)

\* the suggestion stored on the finding of the reference
StoredSuggestion(ref) == report_issues[ref].d.fix_suggestion

\* C13: a ranked finding whose rule id holds a rule id of the suggestion
\* table is filed under the category that lists that rule id and carries
\* that rule's text of the table, whatever its message; the suggestions drawn
\* from the message and the generic one go only to findings whose rule id
\* holds no rule id of the table
C13_TableSuggestionFirst ==
  rpc = "prioritized" =>
    \A ref \in DOMAIN report_issues :
      IF TableRules[RuleOf(ref)] # {}
      THEN \E i \in TableRules[RuleOf(ref)] :
             /\ StoredSuggestion(ref) = suggestions[i][2]
             /\ \E c \in DOMAIN rule_categories :
                  /\ rule_categories[c][1] = FiledCategory(ref)
                  /\ suggestions[i][1] \in Range(rule_categories[c][2])
      ELSE StoredSuggestion(ref) \in FallbackSuggestions

\* a finding with a rule of the table and a keyword in its message has been ranked
C13_Witness ==
  /\ rpc = "prioritized"
  /\ \E ref \in DOMAIN report_issues :
       /\ TableRules[RuleOf(ref)] # {}
       /\ HasKeywordMessage(ref)
       /\ StoredSuggestion(ref) \notin FallbackSuggestions

(***************************************************************************)
(* C14, C15: the score of a finding                                        *)
(***************************************************************************)
\* the five recognized severities with their ranks
RecognizedRank ==
  [ s \in { "BLOCKER", "CRITICAL", "MAJOR", "MINOR", "INFO" } |->
      CASE s = "BLOCKER" -> 1 [] s = "CRITICAL" -> 2 [] s = "MAJOR" -> 3
        [] s = "MINOR" -> 4 [] s = "INFO" -> 5 ]

\* the severity token of the finding of the reference ("" when it has none)
SeverityOf(ref) == Get(report_issues[ref], "severity", "")

IsRecognized(ref) == SeverityOf(ref) \in DOMAIN RecognizedRank

\* the components of the pool that follow the driver path convention
DriverComponents ==
  { c \in { Get(f, "component", "") : f \in ObjectPool } : Contains(c, "drivers/") }

\* the bonuses of the finding of the reference, in tenths
BonusOf(ref) ==
  (IF FiledCategory(ref) \in { "security", "memory", "error_handling" } THEN 5 ELSE 0)
  + (IF Get(report_issues[ref], "component", "") \in DriverComponents THEN 3 ELSE 0)

\* the place of the reference in the ranked list
PlaceOf(ref) == CHOOSE p \in DOMAIN prioritized : prioritized[p] = ref

\* C14: a finding whose severity is missing or is none of the five recognized
\* levels is ranked (nothing is raised), has base score 10 (100 tenths less
\* its bonuses), and stands after every finding with a recognized severity
C14_UnknownSeverityLast ==
  rpc = "prioritized" =>
    \A ref \in DOMAIN report_issues :
      ~IsRecognized(ref) =>
        /\ ref \in Range(prioritized)
        /\ StoredScore(ref) = 100 - BonusOf(ref)
        /\ \A other \in DOMAIN report_issues :
             IsRecognized(other) => PlaceOf(other) < PlaceOf(ref)

\* an unrecognized severity with both bonuses has been ranked after an INFO finding
C14_Witness ==
  /\ rpc = "prioritized"
  /\ \E ref, other \in DOMAIN report_issues :
       /\ ~IsRecognized(ref) /\ BonusOf(ref) = 8
       /\ SeverityOf(other) = "INFO"
       /\ PlaceOf(other) < PlaceOf(ref)

\* C15: the score of every ranked finding is, in tenths, 10 times its
\* severity rank (10 for a severity outside the five levels), less 5 if its
\* category is security, memory or error_handling, less 3 if its path
\* follows the driver convention; each bonus is applied once, independently
C15_ScoreFormula ==
  rpc = "prioritized" =>
    \A ref \in DOMAIN report_issues :
      StoredScore(ref) =
        10 * (IF IsRecognized(ref) THEN RecognizedRank[SeverityOf(ref)] ELSE 10)
        - BonusOf(ref)

\* a finding with both bonuses and one with none have been scored
C15_Witness ==
  /\ rpc = "prioritized"
  /\ \E ref, other \in DOMAIN report_issues :
       /\ BonusOf(ref) = 8 /\ IsRecognized(ref)
       /\ BonusOf(other) = 0

(***************************************************************************)
(* C16: ranking and the finding records                                    *)
(***************************************************************************)
\* C16: prioritize_issues leaves every finding record of its input as it
\* was: no step of the ranking changes a field or a value of a finding
C16_RankingKeepsInput ==
  [][rpc = "analyzed" => report_issues' = report_issues]_vars

(***************************************************************************)
(* C17: ranking the ranked list again                                      *)
(***************************************************************************)
\* the ranked list as a list of finding records
RankedRecords == [ p \in DOMAIN prioritized |-> report_issues[prioritized[p]] ]

\* prioritize_issues(analyze_issues(..)) of the ranked list: the references
\* into the ranked list in their new order
Reranked ==
  LET again == analyze_issues(RankedRecords).analysis
      key == [ p \in DOMAIN RankedRecords |->
                 PriorityScore(Get(RankedRecords[p], "severity", "UNKNOWN"),
                               RankedRecords[p]) ]
  IN  [ order |-> Sorted(Flatten(again.by_severity), key), score |-> key ]

\* C17: the ranked list, analyzed and ranked once more, comes out in the
\* same order with the same scores
C17_RerankSame ==
  rpc = "prioritized" =>
    /\ Reranked.order = [ p \in DOMAIN prioritized |-> p ]
    /\ \A p \in DOMAIN prioritized : Reranked.score[p] = StoredScore(prioritized[p])

(***************************************************************************)
(* C18: the high-priority subset                                           *)
(***************************************************************************)
\* C18: the top priority list of generate_report is a prefix of the ranked
\* list and holds only issues whose score is strictly below the threshold 3
\* (a MAJOR issue with no bonus, whose score is 3, is left out); the issues
\* that export_for_claude_review counts as high priority are those whose
\* score is strictly below its threshold 2
C18_HighPriorityBelowThreshold ==
  /\ rpc = "reported" =>
       /\ Len(high_priority) <= Len(prioritized)
       /\ high_priority = SubSeq(prioritized, 1, Len(high_priority))
       /\ \A k \in DOMAIN high_priority : Scores[high_priority[k]] < TopPriorityScore
  /\ claude_report # << >> =>
       claude_report[1].high_priority
         = Cardinality({ p \in DOMAIN prioritized :
                           Scores[prioritized[p]] < ExportHighScore })

(***************************************************************************)
(* C19: the tally and the length filter                                    *)
(***************************************************************************)
\* the sum of the per-category counts
TallyTotal == SumValues(category_counts)

\* C19: the per-category counts sum to the number of recorded comments, and
\* each processed comment adds one to that sum and one recorded comment when
\* its stripped text has at least 10 characters, and otherwise changes no
\* count, no example list and no recorded comment
C19_TallyMatchesLengthFilter ==
  [][ /\ TallyTotal = Len(all_comments)
      /\ TallyTotal' = Len(all_comments')
      /\ pr_number' # pr_number =>
           IF Len(Strip(comment_text')) >= 10
           THEN /\ TallyTotal' = TallyTotal + 1
                /\ Len(all_comments') = Len(all_comments) + 1
                /\ all_comments'[Len(all_comments')].comment = comment_text'
           ELSE UNCHANGED <<category_counts, category_examples, all_comments>>
    ]_vars

\* a comment too short once stripped was processed after classified comments
C19_Witness ==
  /\ ppc = "loop"
  /\ Len(comment_text) >= 10
  /\ Len(Strip(comment_text)) < 10
  /\ all_comments # << >>
  /\ pr_number > all_comments[Len(all_comments)].pr
  /\ TallyTotal = Len(all_comments)

(***************************************************************************)
(* C20: the percentages                                                    *)
(***************************************************************************)
\* C20: the breakdown gives every category its count and, to the printed
\* tenth, count * 100 / total where total is the number of classified
\* comments; the step ends without ZeroDivisionError, also when no comment was
\* classified
C20_PercentageOfTotal ==
  /\ ppc # "raised"
  /\ ppc = "returned" =>
       /\ { breakdown[k].category : k \in DOMAIN breakdown } = DictKeys(category_counts)
       /\ Len(breakdown) = Cardinality(DictKeys(category_counts))
       /\ \A k \in DOMAIN breakdown :
            LET count == breakdown[k].count
                total == Len(all_comments)
                tenths == breakdown[k].percentage
                diff == 2 * (tenths * total - 1000 * count)
            IN  /\ count = DictGet(category_counts, breakdown[k].category, 0)
                /\ diff <= total
                /\ 0 - diff <= total

\* the counts 3 and 1 were printed with 75.0 and 25.0
C20_Witness ==
  /\ ppc = "returned"
  /\ Len(breakdown) = 2
  /\ breakdown[1].count = 3 /\ breakdown[1].percentage = 750
  /\ breakdown[2].count = 1 /\ breakdown[2].percentage = 250

\* PRs were processed, no comment was classified, and the step has ended
C20_ZeroTotalReturned ==
  /\ ppc = "returned"
  /\ pr_number > 0
  /\ all_comments = << >>
  /\ breakdown = << >>

(***************************************************************************)
(* C21: the Uncategorized fallback                                         *)
(***************************************************************************)
\* some keyword of some category occurs in the lower-cased text
KeywordOccurs(text) ==
  \E c \in DOMAIN categories :
     \E k \in DOMAIN categories[c].keywords :
        Contains(Lower(text), categories[c].keywords[k])

\* C21: categorize_comment returns Uncategorized exactly when no keyword of
\* any category occurs in the lower-cased text; when a keyword occurs the
\* result is a category of the taxonomy whose score is not zero
C21_UncategorizedIffNoKeyword ==
  category # "" =>
     /\ (category = "Uncategorized") <=> ~KeywordOccurs(comment_text)
     /\ KeywordOccurs(comment_text) =>
          \E c \in DOMAIN categories :
             /\ category = categories[c].name
             /\ ScoreOf(c, comment_text) > 0

\* a text of two words without any keyword was classified
C21_Witness ==
  /\ category = "Uncategorized"
  /\ Len(comment_text) >= 5
  /\ ~KeywordOccurs(comment_text)

(***************************************************************************)
(* C23: the window of the null check                                       *)
(***************************************************************************)
\* the returned list holds an issue with the message for line i
MessageAt(i, message) ==
  \E k \in DOMAIN file_issues :
     file_issues[k].line_number = i /\ file_issues[k].message = message

\* C23: a line n that dereferences a handle with no guard token on the line
\* is flagged as a potential null dereference exactly when none of the 5
\* lines n-5 .. n-1 before it holds a null check; a null check exactly 5
\* lines before the dereference suppresses the issue
C23_NullCheckWindowFive ==
  Scanned =>
    \A n \in DOMAIN ScannedLines :
      ErrorHandlingOfLine[ScannedLines[n]].unguarded =>
        (MessageAt(n, "Potential null pointer dereference")
           <=> ~\E j \in (n - 5)..(n - 1) :
                  j >= 1 /\ ErrorHandlingOfLine[ScannedLines[j]].null_check)

(***************************************************************************)
(* C24: the condition of the header guard issue                            *)
(***************************************************************************)
\* C24: a scanned header has the header-guard issue exactly when its first
\* 10 lines hold neither the #ifndef form nor the #define form of the
\* expected guard; with at least one of the two forms there is no such issue
C24_GuardFlaggedOnlyWithoutAnyForm ==
  (Scanned /\ EndsWith(file_path, ".h")) =>
     (IssuesOf({ "Header Guards" }) # << >> <=> NoGuardFormInHead)

(***************************************************************************)
(* C25: the state of the documentation detector                            *)
(***************************************************************************)
\* the last line before line n flagged for missing documentation, 0 if none
LastFlaggedBefore(n) ==
  MaxOf({ 0 } \cup { m \in 1..(n - 1) :
                       MessageAt(m, "Public function missing Doxygen documentation") })

\* C25: in a header, a function declaration is flagged for missing
\* documentation exactly when no marker (@brief, @param, @return) stands
\* between the last flagged declaration (or the start of the file) and the
\* declaration, so that a declaration that is not flagged leaves the marker
\* in force; in other files no declaration is flagged
C25_MarkerSinceLastFlagged ==
  Scanned =>
    \A n \in DOMAIN ScannedLines :
      IF EndsWith(file_path, ".h")
      THEN DocumentationOfLine[ScannedLines[n]].function =>
             (MessageAt(n, "Public function missing Doxygen documentation")
                <=> ~\E j \in (LastFlaggedBefore(n) + 1)..(n - 1) :
                       DocumentationOfLine[ScannedLines[j]].doxygen)
      ELSE ~MessageAt(n, "Public function missing Doxygen documentation")

(***************************************************************************)
(* C26: the unchecked call and the calls that need no check                *)
(***************************************************************************)
\* the line with every call of a function that needs no check taken out
WithoutSkipCalls(line) ==
  Replace(Replace(Replace(line, "no_os_mdelay(", "("), "no_os_udelay(", "("),
          "no_os_free(", "(")

\* C26: a line is flagged for an unchecked call exactly when no result is
\* captured on it and it holds a call of a no_os_ function other than
\* no_os_mdelay, no_os_udelay and no_os_free, also when a call of one of
\* these three stands on the same line
C26_UncheckedCallPerCallee ==
  Scanned =>
    \A n \in DOMAIN ScannedLines :
      MessageAt(n, "no-OS function call without return value check")
        <=> /\ ~Search(CapturePattern, ScannedLines[n])
            /\ Search(CallPattern, WithoutSkipCalls(ScannedLines[n]))

(***************************************************************************)
(* C27: ranking keeps every finding                                        *)
(***************************************************************************)
\* C27: the ranked list is a permutation of the findings of the report: it
\* is as long as the report and every finding stands in it, whatever its
\* severity (recognized, unrecognized or missing)
C27_RankedPermutation ==
  rpc = "prioritized" =>
    /\ Len(prioritized) = Len(report_issues)
    /\ Range(prioritized) = DOMAIN report_issues
    /\ \A p, q \in DOMAIN prioritized : p # q => prioritized[p] # prioritized[q]

\* a report with a recognized severity between an unrecognized and a missing
\* one, regrouped by severity, has been ranked
C27_Witness ==
  /\ rpc = "prioritized"
  /\ Len(report_issues) = 3
  /\ ~IsRecognized(1) /\ SeverityOf(1) # ""
  /\ IsRecognized(2)
  /\ "severity" \notin DOMAIN report_issues[3].d
  /\ prioritized = << 2, 1, 3 >>

(***************************************************************************)
(* C28: severity before bonuses                                            *)
(***************************************************************************)
\* C28: of two ranked findings with recognized severities the one with the
\* more severe level has the strictly lower score, whatever bonuses each has,
\* and so the findings with recognized severities stand in the ranked list
\* in the order of their levels, BLOCKER first
C28_SeverityDominates ==
  rpc = "prioritized" =>
    \A a, b \in DOMAIN report_issues :
      (IsRecognized(a) /\ IsRecognized(b)
       /\ RecognizedRank[SeverityOf(a)] < RecognizedRank[SeverityOf(b)]) =>
         /\ StoredScore(a) < StoredScore(b)
         /\ PlaceOf(a) < PlaceOf(b)

\* a MAJOR finding without bonus stands before a MINOR finding with both
\* bonuses that came first in the report
C28_Witness ==
  /\ rpc = "prioritized"
  /\ \E a, b \in DOMAIN report_issues :
       /\ SeverityOf(a) = "MAJOR" /\ StoredScore(a) = 30
       /\ SeverityOf(b) = "MINOR" /\ StoredScore(b) = 32
       /\ b < a
       /\ PlaceOf(a) < PlaceOf(b)

(***************************************************************************)
(* C29: the urgent bonus and the category of the rule                      *)
(***************************************************************************)
\* the score of the finding of the reference is lower than the score of its
\* severity by the urgent bonus, with or without the driver bonus (in tenths)
UrgentBonusApplied(ref) ==
  10 * (IF IsRecognized(ref) THEN RecognizedRank[SeverityOf(ref)] ELSE 10)
    - StoredScore(ref) \in { 5, 8 }

\* C29: a ranked finding has the urgent bonus of 0.5 exactly when the
\* category that categorize_rule gives its rule id, under which it was
\* filed, is security, memory or error_handling
C29_UrgentBonusIffUrgentCategory ==
  rpc = "prioritized" =>
    \A ref \in DOMAIN report_issues :
      /\ FiledCategory(ref) = CategoryOfRule[RuleOf(ref)]
      /\ UrgentBonusApplied(ref)
           <=> FiledCategory(ref) \in { "security", "memory", "error_handling" }

\* the rule of two categories has the bonus, a rule of a category outside
\* the three and a rule of no category have none
C29_Witness ==
  /\ rpc = "prioritized"
  /\ \E p, q, r \in DOMAIN report_issues :
       /\ RuleOf(p) = "squid:S1313" /\ UrgentBonusApplied(p)
       /\ FiledCategory(q) = "performance" /\ ~UrgentBonusApplied(q)
       /\ FiledCategory(r) = "other" /\ ~UrgentBonusApplied(r)

IsSourceFile(f) == EndsWith(f.path, ".c") \/ EndsWith(f.path, ".h")

\* C30: the issues of a file that was read have level INFO or WARNING and a
\* line number from 1 to the number of lines of the file, the one issue of a
\* file that exists and cannot be read has level ERROR and line 0, and a run
\* on some files ends with exit status 1 exactly when one of the .c or .h
\* files named could not be read
C30_FailsIffUnreadable ==
  /\ \A k \in DOMAIN scans :
       \A n \in DOMAIN scans[k].issues :
         LET issue == scans[k].issues[n]
         IN  IF scans[k].file.status = "ok"
             THEN /\ issue.level \in { "INFO", "WARNING" }
                  /\ issue.line_number >= 1
                  /\ issue.line_number <= Len(Split(scans[k].file.content, "\n"))
             ELSE /\ issue.level = "ERROR"
                  /\ issue.line_number = 0
                  /\ scans[k].file.status \in { "denied", "directory" }
  /\ (exit_status # -1 /\ argv # << >>) =>
       (exit_status = 1
          <=> \E k \in DOMAIN argv :
                 IsSourceFile(argv[k]) /\ argv[k].status \in { "denied", "directory" })

====
